---- MODULE Spec2Model ----
(***************************************************************************)
(* A model of the device-notification pipeline of asg-server:              *)
(*   - the in-process expiring cache        (pkg/cache/memory.go)          *)
(*   - the push dispatcher                  (modules/push, part_004)       *)
(*   - the SSE hub                          (modules/sse/service.go)       *)
(*   - the event router                     (modules/events, part_003)     *)
(* Every lock-protected critical section is one atomic step, and a call    *)
(* with several of them, or with a call to another component between       *)
(* them, takes several steps, so that calls interleave the way goroutines  *)
(* do. A clock reading that a cache call takes outside its critical        *)
(* section is an input of its step: any instant the call can have read.    *)
(***************************************************************************)
EXTENDS FiniteSets, Integers, Sequences, TLC

(***************************************************************************)
(* Bounds of the model                                                     *)
(***************************************************************************)
\* the clock starts at StartTime and is advanced up to MaxTime
StartTime == 2
MaxTime == 4
\* number of entries the cache calls of one behaviour may create
MaxWrites == 3

Keys == {"k1", "k2"}
\* durations handed to WithTTL, instants handed to WithValidUntil
Durations == {0, 1}
Untils == {3}
\* instance-level TTL handed to NewMemory (0: none)
InstanceTTLs == {0, 1}
\* the key the SetOrFail race is run on
RaceKey == "k1"
\* the number of events whose way through the router is recorded
MaxTraced == 3
\* the number of events the producers of the liveness check keep queued
MaxQueued == 2
\* the number of streams opened in the liveness check
LiveStreams == 1
\* the number of frames the callers of Send let a stream buffer hold when
\* the order of the frames is followed
MaxBuffered == 3

\* the callers of redisCache.Set that run side by side, and the number of
\* Set calls they make in one behaviour
RedisCallers == {1, 2}
MaxRedisSets == 3

\* the callers of SetOnline that run side by side, and the number of
\* SetOnline calls of one behaviour
OnlineCallers == {1, 2}
MaxStamps == 3

(***************************************************************************)
(* Values shared by the components                                         *)
(***************************************************************************)
\* time.Time{}: the zero instant, which IsZero() recognises
ZeroTime == 0

ErrNil == "nil"
ErrKeyNotFound == "key not found"
ErrKeyExpired == "key expired"
ErrKeyExists == "key already exists"
\* fmt.Errorf("can't set cache item ttl: %w", err) of redisCache
ErrSetTTL == "can't set cache item ttl"

\* the cache never inspects a value: the n-th write of a behaviour writes the
\* value n, which tells the entries apart; NoValue is Go's empty string
Values == 1..MaxWrites
NoValue == 0

EmptyMap == [x \in {} |-> x]

\* (mutation of MapPut: a write that keeps the item already stored)
MapPutIfAbsent(m, k, x) ==
    [y \in DOMAIN m \cup {k} |-> IF y \in DOMAIN m THEN m[y] ELSE x]

\* Go's m[k] = x and delete(m, k) on a map
MapPut(m, k, x) == [y \in DOMAIN m \cup {k} |-> IF y = k THEN x ELSE m[y]]
MapDelete(m, k) == [y \in DOMAIN m \ {k} |-> m[y]]

VARIABLES
    now,        \* the wall clock, time.Now()
    ttl,        \* memoryCache.ttl
    items,      \* memoryCache.items: a map from key to *memoryItem
    nextVal,    \* the value the next write stores
    last,       \* the cache call that returned latest, and what it returned
    setVal,     \* history: per key, the item of the latest completed Set not yet replaced or removed
    fate,       \* history: per entry, what became of it
    drainMark   \* history: the number of entries written before the latest Drain

cacheVars == <<now, ttl, items, nextVal, last, setVal, fate, drainMark>>

VARIABLES
    rhash,      \* the hash redisCache.key on the server: field -> value and expiry
    rlast,      \* the redisCache call that returned latest, and what it returned
    rsync,      \* the memoryCache call redisCache was given latest, and the writes by then
    rset,       \* the redisCache.Set calls in progress, by caller, when they run side by side
    rasked      \* history: the expiry each of those Set calls asked for, by the value it wrote

redisVars == <<rhash, rlast, rsync, rset, rasked>>

VARIABLES
    pending,    \* push.Service.cache: token -> eventWrapper, no TTL
    blacklist,  \* push.Service.blacklist: token -> struct{}, TTL blacklistTimeout
    enq,        \* the Enqueue call in progress (the router consumer is its only caller)
    flush,      \* the sendAll call in progress (the debounce task is its only caller)
    pushLog,    \* the latest line Enqueue or sendAll logged about one token
    failStreak, \* history: per token, the flushes in a row whose error map named it
    raced       \* history: per token, the event of the latest Enqueue completed since the latest drain

pushVars == <<pending, blacklist, enq, flush, pushLog, failStreak, raced>>

VARIABLES
    keepAlivePeriod, \* sse.Config.keepAlivePeriod
    connections,     \* sse.Service.connections: device id -> its connections, in order
    conn,            \* every sseConnection made so far, by id, and its serving loop
    nextConn,        \* the id the next connection gets (uuid.NewString: fresh)
    snd,             \* the Send call in progress (the router consumer is its only caller)
    sndRet           \* the error the latest Send returned

sseVars == <<keepAlivePeriod, connections, conn, nextConn, snd, sndRet>>

VARIABLES
    queue,     \* events.Service.queue, a channel of capacity 128
    cons,      \* the position of Run, the only consumer of the queue
    notifyRet, \* the error the latest Notify returned
    routerLog, \* the lines processEvent has logged so far, as a set
    accepted,  \* history: the first MaxTraced events Notify put on the queue, in order
    started,   \* history: the first MaxTraced events Run took off the queue, in order
    attempts,  \* history: the delivery calls made for the event taken latest, in order
    watch      \* history: one queued event an observer follows to its dispatch

routerVars == <<queue, cons, notifyRet, routerLog, accepted, started, attempts, watch>>

VARIABLES
    ctxDone    \* per background task, whether the context its Run was given is cancelled

lifeVars == <<ctxDone>>

VARIABLES
    online,    \* online.service.cache: device id -> the last-seen text set for it
    callers,   \* the SetOnline calls in progress, by caller
    persist,   \* the position of persist, called by the tracker's Run alone
    onlineLog  \* history: what SetOnline wrote and what SetLastSeen was passed

onlineVars == <<online, callers, persist, onlineLog>>

vars == <<cacheVars, redisVars, pushVars, sseVars, routerVars, lifeVars, onlineVars>>

\* what a call on one component leaves alone
notCache == <<redisVars, pushVars, sseVars, routerVars, lifeVars, onlineVars>>
notRedis == <<cacheVars, pushVars, sseVars, routerVars, lifeVars, onlineVars>>
notPush == <<cacheVars, redisVars, sseVars, routerVars, lifeVars, onlineVars>>
notSSE == <<cacheVars, redisVars, pushVars, routerVars, lifeVars, onlineVars>>
notRouter == <<cacheVars, redisVars, pushVars, sseVars, lifeVars, onlineVars>>
notLife == <<cacheVars, redisVars, pushVars, sseVars, routerVars, onlineVars>>
notOnline == <<cacheVars, redisVars, pushVars, sseVars, routerVars, lifeVars>>

(***************************************************************************)
(* modules/events: the events the router carries to both delivery paths    *)
(***************************************************************************)
NewEvent(eventType, data) == [type |-> eventType, data |-> data]
NewMessageEnqueuedEvent == NewEvent("MessageEnqueued", "nil")
NewWebhooksUpdatedEvent == NewEvent("WebhooksUpdated", "nil")
NoEvent == NewEvent("", "")

(***************************************************************************)
(* pkg/cache: options and items                                            *)
(***************************************************************************)
NoOpt == [kind |-> "none", arg |-> 0]
Opts == {NoOpt} \cup {[kind |-> "ttl", arg |-> d] : d \in Durations}
               \cup {[kind |-> "until", arg |-> u] : u \in Untils}

\* WithTTL: the branch for ttl <= 0 sets the zero instant and then falls
\* through to the assignment below it, so the result is always t + d
WithTTL(d, t) ==
    LET zeroed == IF d <= 0 THEN ZeroTime ELSE ZeroTime
    IN  t + d

WithValidUntil(u) == u

\* options.apply: run the option over the options struct
apply(validUntil, opt, t) ==
    CASE opt.kind = "ttl" -> WithTTL(opt.arg, t)
      [] opt.kind = "until" -> WithValidUntil(opt.arg)
      [] OTHER -> validUntil

memoryItem(value, validUntil) ==
    [value |-> value, validUntil |-> validUntil]

ZeroItem == memoryItem(NoValue, ZeroTime)

\* memoryCache.newItem: instance TTL first, then the call's options
newItem(mttl, value, opt, t) ==
    memoryItem(value, apply(IF mttl > 0 THEN t + mttl ELSE ZeroTime, opt, t))

\* (mutation of isExpired: the instant of expiry itself counts as expired)
isExpiredInclusive(item, t) == item.validUntil # ZeroTime /\ t >= item.validUntil

\* memoryItem.isExpired
isExpired(item, t) == item.validUntil # ZeroTime /\ t > item.validUntil

\* (mutation of getItem: the expiry is not tested)
getItemUntested(ok, item, t) == IF ~ok THEN ErrKeyNotFound ELSE ErrNil

\* memoryCache.getItem: the error for what the getter fetched
getItem(ok, item, t) ==
    IF ~ok THEN ErrKeyNotFound
    ELSE IF isExpired(item, t) THEN ErrKeyExpired
    ELSE ErrNil

\* memoryCache.getValue
getValue(ok, item, t) ==
    IF getItem(ok, item, t) # ErrNil THEN NoValue ELSE item.value

\* (mutation of cleanup: the loop deletes nothing)
cleanupNothing(m, t) == m

\* the loop of memoryCache.cleanup: delete every item expired at t
cleanup(m, t) ==
    [k \in {y \in DOMAIN m : ~isExpired(m[y], t)} |-> m[k]]

\* (mutation of keyExists: the test dropped, SetOrFail writes as Set does)
keyExistsSkipped(m, k, t) == FALSE

\* the test of SetOrFail: a stored item that is not expired blocks the write
keyExists(m, k, t) == k \in DOMAIN m /\ ~isExpired(m[k], t)

\* the copy loop of Drain: key -> item.value
drainValues(cpy) == [k \in DOMAIN cpy |-> cpy[k].value]

\* (mutation of drainLeft: the callback copies the table and leaves it in place)
drainLeftInPlace(cpy) == cpy

\* the table Drain's callback leaves behind: make(map[string]*memoryItem)
drainLeft(cpy) == EmptyMap

(***************************************************************************)
(* What the calls return, and the history of the entries                   *)
(***************************************************************************)
\* at: the clock reading the call tested expiry against
Returned(op, key, value, err, snap, at) ==
    [op |-> op, key |-> key, value |-> value, err |-> err, snap |-> snap,
     at |-> at, opt |-> NoOpt]

\* what a Set or SetOrFail called with option o returned
Asked(r, o) == [r EXCEPT !.opt = o]

\* the expiry of an entry has passed at t (the history's own reading of it)
Late(item, t) == item.validUntil > 0 /\ item.validUntil < t

Holds(m, v) == \E k \in DOMAIN m : m[k].value = v

\* history of the entries of table m once a write or removal made it m2
Settle(f, m, m2, how) ==
    [v \in Values |->
        IF Holds(m, v) /\ ~Holds(m2, v) THEN how
        ELSE IF Holds(m2, v) /\ ~Holds(m, v) THEN "stored"
        ELSE f[v]]

\* history of the entries of table m when cleanup ran on it with clock reading t
\* and left m2, a Drain (if any) handing out cpy
Swept(f, m, m2, cpy, t) ==
    [v \in Values |->
        IF Holds(m, v)
        THEN LET k == CHOOSE y \in DOMAIN m : m[y].value = v
             IN  IF Holds(cpy, v)
                 THEN IF Late(m[k], t) THEN "drained expired" ELSE "drained"
                 ELSE IF Holds(m2, v) THEN "stored"
                 ELSE IF Late(m[k], t) THEN "expired" ELSE "lost"
        ELSE IF Holds(cpy, v) THEN "drained twice"
        ELSE f[v]]

Forget(sv, m, m2) ==
    [k \in Keys |->
        IF k \in DOMAIN m /\ (k \notin DOMAIN m2 \/ m2[k] # m[k])
        THEN ZeroItem ELSE sv[k]]

(***************************************************************************)
(* pkg/cache: the operations of memoryCache.                               *)
(* A call is one step, taken when it holds the lock. The instants at which *)
(* it reads the clock outside the lock are inputs of the step: cleanup     *)
(* reads it before it takes the lock (any instant up to now), getItem      *)
(* after the getter has released it (any instant from now on).             *)
(***************************************************************************)
Past == StartTime..now
Future == now..MaxTime

CacheInit ==
    /\ now = StartTime
    /\ ttl \in InstanceTTLs
    /\ items = EmptyMap
    /\ nextVal = 1
    /\ last = Returned("none", "", NoValue, ErrNil, EmptyMap, 0)
    /\ setVal = [k \in Keys |-> ZeroItem]
    /\ fate = [v \in Values |-> "unborn"]
    /\ drainMark = 0

\* Set: lock, items[key] = newItem(value, opts), unlock
Set(k, o) ==
    /\ nextVal <= MaxWrites
    /\ items' = MapPut(items, k, newItem(ttl, nextVal, o, now))
    /\ nextVal' = nextVal + 1
    /\ last' = Asked(Returned("Set", k, NoValue, ErrNil, EmptyMap, 0), o)
    /\ setVal' = [setVal EXCEPT ![k] = newItem(ttl, nextVal, o, now)]
    /\ fate' = Settle(fate, items, items', "gone")
    /\ UNCHANGED <<now, ttl, drainMark>>
    /\ UNCHANGED notCache

\* (mutation of SetOrFail: the write is made before the test, so that a
\* call that returns KeyExists has replaced the entry)
SetOrFailClobbers(k, o) ==
    /\ nextVal <= MaxWrites
    /\ items' = MapPut(items, k, newItem(ttl, nextVal, o, now))
    /\ nextVal' = nextVal + 1
    /\ setVal' = [setVal EXCEPT ![k] = ZeroItem]
    /\ fate' = Settle(fate, items, items', "gone")
    /\ last' = Asked(Returned("SetOrFail", k, nextVal,
                              IF keyExists(items, k, now) THEN ErrKeyExists
                              ELSE ErrNil, EmptyMap, now), o)
    /\ UNCHANGED <<now, ttl, drainMark>>
    /\ UNCHANGED notCache

\* SetOrFail: the test and the write under one lock
SetOrFail(k, o) ==
    /\ nextVal <= MaxWrites
    /\ IF keyExists(items, k, now)
       THEN /\ last' = Asked(Returned("SetOrFail", k, nextVal, ErrKeyExists,
                                       EmptyMap, now), o)
            /\ UNCHANGED <<items, nextVal, setVal, fate>>
       ELSE /\ items' = MapPut(items, k, newItem(ttl, nextVal, o, now))
            /\ nextVal' = nextVal + 1
            /\ setVal' = [setVal EXCEPT ![k] = ZeroItem]
            /\ fate' = Settle(fate, items, items',
                              IF k \in DOMAIN items /\ Late(items[k], now)
                              THEN "gone" ELSE "clobbered")
            /\ last' = Asked(Returned("SetOrFail", k, nextVal, ErrNil,
                                       EmptyMap, now), o)
    /\ UNCHANGED <<now, ttl, drainMark>>
    /\ UNCHANGED notCache

\* Delete: lock, delete(items, key), unlock
Delete(k) ==
    /\ items' = MapDelete(items, k)
    /\ fate' = Settle(fate, items, items', "gone")
    /\ setVal' = [setVal EXCEPT ![k] = ZeroItem]
    /\ last' = Returned("Delete", k, NoValue, ErrNil, EmptyMap, 0)
    /\ UNCHANGED <<now, ttl, nextVal, drainMark>>
    /\ UNCHANGED notCache

\* what the getter of Get and GetAndDelete fetches from table m, passed on
\* to getItem and getValue with the clock reading t
GetErrorOf(m, k, t) ==
    getItem(k \in DOMAIN m, IF k \in DOMAIN m THEN m[k] ELSE ZeroItem, t)
GetValueOf(m, k, t) ==
    getValue(k \in DOMAIN m, IF k \in DOMAIN m THEN m[k] ELSE ZeroItem, t)

\* (mutation of Get: a Get that finds the entry expired deletes it)
GetEvicting(k, t) ==
    /\ last' = Returned("Get", k, GetValueOf(items, k, t), GetErrorOf(items, k, t),
                        EmptyMap, t)
    /\ items' = IF GetErrorOf(items, k, t) = ErrKeyExpired
                THEN MapDelete(items, k) ELSE items
    /\ UNCHANGED <<now, ttl, nextVal, setVal, fate, drainMark>>
    /\ UNCHANGED notCache

\* Get: the getter reads items[key] under the read lock, getItem then
\* tests expiry against time.Now(), read at t
Get(k, t) ==
    /\ last' = Returned("Get", k, GetValueOf(items, k, t), GetErrorOf(items, k, t),
                        EmptyMap, t)
    /\ UNCHANGED <<now, ttl, items, nextVal, setVal, fate, drainMark>>
    /\ UNCHANGED notCache

\* (mutation of GetAndDelete: the getter reads and leaves the entry stored)
GetAndDeleteKeeping(k, t) ==
    /\ last' = Returned("GetAndDelete", k, GetValueOf(items, k, t),
                        GetErrorOf(items, k, t), EmptyMap, t)
    /\ UNCHANGED <<now, ttl, items, nextVal, setVal, fate, drainMark>>
    /\ UNCHANGED notCache

\* GetAndDelete: the getter reads and deletes under the write lock
GetAndDelete(k, t) ==
    /\ last' = Returned("GetAndDelete", k, GetValueOf(items, k, t),
                        GetErrorOf(items, k, t), EmptyMap, t)
    /\ items' = MapDelete(items, k)
    /\ fate' = Settle(fate, items, items', "gone")
    /\ setVal' = [setVal EXCEPT ![k] = ZeroItem]
    /\ UNCHANGED <<now, ttl, nextVal, drainMark>>
    /\ UNCHANGED notCache

\* (mutation of Cleanup: the loop deletes every entry)
CleanupEverything(t) ==
    /\ items' = EmptyMap
    /\ fate' = Swept(fate, items, items', EmptyMap, t)
    /\ setVal' = Forget(setVal, items, items')
    /\ last' = Returned("Cleanup", "", NoValue, ErrNil, EmptyMap, t)
    /\ UNCHANGED <<now, ttl, nextVal, drainMark>>
    /\ UNCHANGED notCache

\* Cleanup: cleanup with an empty callback; t is its clock reading
Cleanup(t) ==
    /\ items' = cleanup(items, t)
    /\ fate' = Swept(fate, items, items', EmptyMap, t)
    /\ setVal' = Forget(setVal, items, items')
    /\ last' = Returned("Cleanup", "", NoValue, ErrNil, EmptyMap, t)
    /\ UNCHANGED <<now, ttl, nextVal, drainMark>>
    /\ UNCHANGED notCache

\* Drain: cleanup, and under the same lock the callback takes the table
\* and puts an empty one in its place; the values are copied out afterwards
Drain(t) ==
    /\ LET cpy == cleanup(items, t)
       IN  /\ items' = drainLeft(cpy)
           /\ fate' = Swept(fate, items, items', cpy, t)
           /\ last' = Returned("Drain", "", NoValue, ErrNil, drainValues(cpy), t)
    /\ setVal' = [k \in Keys |-> ZeroItem]
    /\ drainMark' = nextVal - 1
    /\ UNCHANGED <<now, ttl, nextVal>>
    /\ UNCHANGED notCache

Tick ==
    /\ now < MaxTime
    /\ now' = now + 1
    /\ UNCHANGED <<ttl, items, nextVal, last, setVal, fate, drainMark>>
    /\ UNCHANGED notCache

(***************************************************************************)
(* pkg/cache: redisCache, the backend that keeps the entries as the fields *)
(* of one hash on a Redis server. The server drops a field by itself once  *)
(* its expiry has passed; the model keeps the field and the commands do    *)
(* not see it. To compare the backends, redisCache is given the call       *)
(* memoryCache has just returned from, at the same clock reading.          *)
(***************************************************************************)
hashField(value, expireAt) == [value |-> value, expireAt |-> expireAt]

\* the server still holds field k of hash h at instant t
Held(h, k, t) ==
    k \in DOMAIN h /\ (h[k].expireAt = ZeroTime \/ t <= h[k].expireAt)

\* HSET: the field gets the value and loses the expiry it had
HSet(h, k, v) == MapPut(h, k, hashField(v, ZeroTime))

\* HEXPIREAT over the fields named in the command
HExpireAt(h, fields, at) ==
    [k \in DOMAIN h |-> IF k \in fields THEN hashField(h[k].value, at) ELSE h[k]]

\* HDEL
HDel(h, k) == MapDelete(h, k)

\* HGETALL: the fields the server still holds at t, field -> value
HGetAll(h, t) == [k \in {y \in DOMAIN h : Held(h, y, t)} |-> h[k].value]

\* the options of redisCache.Set and SetOrFail: instance TTL first, then the
\* call's options
redisOptions(o, t) == apply(IF ttl > 0 THEN t + ttl ELSE ZeroTime, o, t)

\* a caller of Set that is not in a call
RedisSetIdle == [pc |-> "idle", key |-> "", validUntil |-> ZeroTime]

RedisInit ==
    /\ rhash = EmptyMap
    /\ rlast = Returned("none", "", NoValue, ErrNil, EmptyMap, 0)
    /\ rsync = <<Returned("none", "", NoValue, ErrNil, EmptyMap, 0), 1>>
    /\ rset = [p \in RedisCallers |-> RedisSetIdle]
    /\ rasked = <<>>

\* memoryCache has returned from a call that redisCache has not been given
Pending == rsync # <<last, nextVal>>

\* redisCache has been given the call of memoryCache
Given(op) == Pending /\ last.op = op
CaughtUp == rsync' = <<last, nextVal>> /\ UNCHANGED <<rset, rasked>> /\ UNCHANGED notRedis

\* redisCache.Set: HSET, then HEXPIREAT of the field when an expiry is asked
RedisSet ==
    /\ Given("Set")
    /\ LET k == last.key
           v == nextVal - 1
           validUntil == redisOptions(last.opt, now)
       IN  /\ rhash' = IF validUntil # ZeroTime
                       THEN HExpireAt(HSet(rhash, k, v), {k}, validUntil)
                       ELSE HSet(rhash, k, v)
           /\ rlast' = Returned("Set", k, NoValue, ErrNil, EmptyMap, 0)
    /\ CaughtUp

\* redisCache.SetOrFail: HSETNX, then HEXPIREAT when an expiry is asked; the
\* command names no field, and reply is what the server answers to it
RedisSetOrFail(reply) ==
    /\ Given("SetOrFail")
    /\ LET k == last.key
           v == last.value
           validUntil == redisOptions(last.opt, now)
       IN  IF Held(rhash, k, now)
           THEN /\ rlast' = Returned("SetOrFail", k, v, ErrKeyExists, EmptyMap, now)
                /\ rhash' = rhash
           ELSE /\ rhash' = IF validUntil # ZeroTime
                            THEN HExpireAt(HSet(rhash, k, v), {}, validUntil)
                            ELSE HSet(rhash, k, v)
                /\ rlast' = Returned("SetOrFail", k, v,
                                     IF validUntil # ZeroTime THEN reply ELSE ErrNil,
                                     EmptyMap, now)
    /\ CaughtUp

\* redisCache.Delete: HDEL
RedisDelete ==
    /\ Given("Delete")
    /\ rhash' = HDel(rhash, last.key)
    /\ rlast' = Returned("Delete", last.key, NoValue, ErrNil, EmptyMap, 0)
    /\ CaughtUp

\* redisCache.Get: HGET; redis.Nil becomes ErrKeyNotFound
RedisGet ==
    /\ Given("Get")
    /\ LET k == last.key
       IN  rlast' = IF Held(rhash, k, last.at)
                    THEN Returned("Get", k, rhash[k].value, ErrNil, EmptyMap, last.at)
                    ELSE Returned("Get", k, NoValue, ErrKeyNotFound, EmptyMap, last.at)
    /\ rhash' = rhash
    /\ CaughtUp

\* redisCache.GetAndDelete: getAndDeleteScript, HGET and HDEL in one script
RedisGetAndDelete ==
    /\ Given("GetAndDelete")
    /\ LET k == last.key
       IN  rlast' = IF Held(rhash, k, last.at)
                    THEN Returned("GetAndDelete", k, rhash[k].value, ErrNil,
                                  EmptyMap, last.at)
                    ELSE Returned("GetAndDelete", k, NoValue, ErrKeyNotFound,
                                  EmptyMap, last.at)
    /\ rhash' = HDel(rhash, last.key)
    /\ CaughtUp

\* redisCache.Cleanup: nothing, the server expires the fields
RedisCleanup ==
    /\ Given("Cleanup")
    /\ rlast' = Returned("Cleanup", "", NoValue, ErrNil, EmptyMap, last.at)
    /\ rhash' = rhash
    /\ CaughtUp

\* redisCache.Drain: hgetallAndDeleteScript, HGETALL and HDEL of each field
\* it returned in one script
RedisDrain ==
    /\ Given("Drain")
    /\ LET all == HGetAll(rhash, last.at)
       IN  /\ rlast' = Returned("Drain", "", NoValue, ErrNil, all, last.at)
           /\ rhash' = [k \in DOMAIN rhash \ DOMAIN all |-> rhash[k]]
    /\ CaughtUp

\* redisCache.Set called by several goroutines, up to its HSET: the options
\* are worked out, the field is set, and with no expiry asked the call
\* returns. The n-th call writes the value n.
RedisSetHSet(p, k, o) ==
    /\ rset[p].pc = "idle"
    /\ Len(rasked) < MaxRedisSets
    /\ LET v == Len(rasked) + 1
           validUntil == redisOptions(o, now)
       IN  /\ rhash' = HSet(rhash, k, v)
           /\ rasked' = Append(rasked, validUntil)
           /\ rset' = IF validUntil # ZeroTime
                      THEN [rset EXCEPT ![p] = [pc |-> "expire", key |-> k,
                                                validUntil |-> validUntil]]
                      ELSE rset
    /\ UNCHANGED <<rlast, rsync>>
    /\ UNCHANGED <<cacheVars, notRedis>>

\* redisCache.Set, the HEXPIREAT that follows the HSET as a command of its
\* own, and return
RedisSetHExpireAt(p) ==
    /\ rset[p].pc = "expire"
    /\ rhash' = HExpireAt(rhash, {rset[p].key}, rset[p].validUntil)
    /\ rset' = [rset EXCEPT ![p] = RedisSetIdle]
    /\ UNCHANGED <<rlast, rsync, rasked>>
    /\ UNCHANGED <<cacheVars, notRedis>>

(***************************************************************************)
(* modules/push: the push dispatcher.                                      *)
(* Its two caches are instances of the generic cache of the helper library *)
(* (cache.New), which has the contract of the cache above: Set, SetOrFail, *)
(* Get and Drain are taken from it.                                        *)
(***************************************************************************)
Tokens == {"t1", "t2"}
Events == {NewMessageEnqueuedEvent, NewWebhooksUpdatedEvent}

\* consts of package push, not among the sources: scenario 6 of the design
\* runs with maxRetries = 3; the blacklist TTL is fixed, one clock tick here
maxRetries == 3
blacklistTimeout == 1

eventWrapper(token, event, retries) ==
    [token |-> token, event |-> event, retries |-> retries]

\* ret is what the latest Enqueue call returned ("none" before any return)
EnqueueIdle == [pc |-> "idle", token |-> "", event |-> NoEvent, ret |-> "none"]
EnqueueReturned(err) == [EnqueueIdle EXCEPT !.ret = err]
FlushIdle == [pc |-> "idle", targets |-> EmptyMap, errs |-> {}]
Logged(token, what) == [token |-> token, what |-> what]

PushInit ==
    /\ pending = EmptyMap
    /\ blacklist = EmptyMap
    /\ enq = EnqueueIdle
    /\ flush = FlushIdle
    /\ pushLog = Logged("", "none")
    /\ failStreak = [t \in Tokens |-> 0]
    /\ raced = [t \in Tokens |-> NoEvent]

\* (mutation of blacklisted: the token is looked up in the pending cache)
blacklistedInPending(bl, token, t) == GetErrorOf(pending, token, t) = ErrNil

\* s.blacklist.Get(token) returned no error
blacklisted(bl, token, t) == GetErrorOf(bl, token, t) = ErrNil

\* (mutation of pushEnqueueCheck: any entry of the blacklist suppresses the
\* token, expired or not)
pushEnqueueCheckForever(token, event) ==
    /\ enq.pc = "idle"
    /\ IF token \in DOMAIN blacklist
       THEN /\ pushLog' = Logged(token, "skipped")
            /\ enq' = EnqueueReturned(ErrNil)
       ELSE /\ enq' = [pc |-> "set", token |-> token, event |-> event, ret |-> "none"]
            /\ UNCHANGED pushLog
    /\ UNCHANGED <<pending, blacklist, flush, failStreak, raced>>

\* Enqueue, first statement: a blacklisted token is skipped, nil returned
pushEnqueueCheck(token, event) ==
    /\ enq.pc = "idle"
    /\ IF blacklisted(blacklist, token, now)
       THEN /\ pushLog' = Logged(token, "skipped")
            /\ enq' = EnqueueReturned(ErrNil)
       ELSE /\ enq' = [pc |-> "set", token |-> token, event |-> event, ret |-> "none"]
            /\ UNCHANGED pushLog
    /\ UNCHANGED <<pending, blacklist, flush, failStreak, raced>>

\* (mutation of enqueued: the new wrapper inherits the retries of the item
\* it replaces)
enqueuedKeepingRetries(token, event) ==
    eventWrapper(token, event,
                 IF token \in DOMAIN pending THEN pending[token].value.retries ELSE 0)

\* Enqueue: wrapper := eventWrapper{token, &event, retries: 0}
enqueued(token, event) == eventWrapper(token, event, 0)

\* Enqueue, s.cache.Set(token, wrapper), nil returned
pushEnqueueSet ==
    /\ enq.pc = "set"
    /\ pending' = MapPut(pending, enq.token,
                         newItem(0, enqueued(enq.token, enq.event), NoOpt, now))
    /\ raced' = [raced EXCEPT ![enq.token] = enq.event]
    /\ enq' = EnqueueReturned(ErrNil)
    /\ UNCHANGED <<blacklist, flush, pushLog, failStreak>>

\* Enqueue called on the dispatcher alone
EnqueueCheck(token, event) ==
    /\ pushEnqueueCheck(token, event)
    /\ UNCHANGED notPush

EnqueueSet ==
    /\ pushEnqueueSet
    /\ UNCHANGED notPush

\* sendAll: targets := s.cache.Drain(); nothing to send, return
FlushDrain ==
    /\ flush.pc = "idle"
    /\ LET cpy == cleanup(pending, now)
       IN  /\ pending' = drainLeft(cpy)
           /\ flush' = IF DOMAIN cpy = {} THEN FlushIdle
                       ELSE [pc |-> "send", targets |-> drainValues(cpy), errs |-> {}]
    /\ raced' = [t \in Tokens |-> NoEvent]
    /\ UNCHANGED <<blacklist, enq, pushLog, failStreak>>
    /\ UNCHANGED notPush

Min(a, b) == IF a < b THEN a ELSE b

\* (mutation of sendOver: a transport-level error no longer ends the call)
sendOverIgnoringErr(errs, err) == errs = {}

\* sendAll: len(errs) == 0 && err == nil, return; err != nil, return
sendOver(errs, err) == err \/ errs = {}

\* sendAll: s.client.Send returns the per-token errors errs and the
\* transport-level error err; no error at all and a transport-level error
\* both end the call; each of the three outcomes is logged or counted
FlushSend(errs, err) ==
    /\ flush.pc = "send"
    /\ flush' = IF sendOver(errs, err) THEN FlushIdle
                ELSE [flush EXCEPT !.pc = "errs", !.errs = errs]
    /\ pushLog' = IF err THEN Logged("", "can't send messages")
                  ELSE IF errs = {} THEN Logged("", "sent")
                  ELSE Logged("", "can't send some")
    /\ failStreak' = [t \in Tokens |->
                        IF t \notin DOMAIN flush.targets THEN failStreak[t]
                        ELSE IF err \/ t \notin errs THEN 0
                        ELSE Min(failStreak[t] + 1, maxRetries)]
    /\ UNCHANGED <<pending, blacklist, enq, raced>>
    /\ UNCHANGED notPush

\* (mutation of reinsert: the failed item is written back with Set)
reinsertWithSet(m, token, wrapper, t) ==
    MapPut(m, token, newItem(0, wrapper, NoOpt, t))

\* sendAll: s.cache.SetOrFail(token, wrapper), its error only logged
reinsert(m, token, wrapper, t) ==
    IF keyExists(m, token, t) THEN m
    ELSE MapPut(m, token, newItem(0, wrapper, NoOpt, t))

\* (mutation of retriesExceeded: one more failure is let through)
retriesExceededLate(wrapper) == wrapper.retries > maxRetries

\* sendAll: if wrapper.retries >= maxRetries
retriesExceeded(wrapper) == wrapper.retries >= maxRetries

\* (mutation of FlushErr: the loop ranges over the whole batch)
FlushErrWholeBatch(token) ==
    /\ flush.pc = "errs"
    /\ token \in DOMAIN flush.targets
    /\ LET wrapper == [flush.targets[token] EXCEPT !.retries = @ + 1]
       IN  IF retriesExceeded(wrapper)
           THEN /\ blacklist' = MapPut(blacklist, token,
                                       newItem(blacklistTimeout, "struct{}", NoOpt, now))
                /\ pushLog' = Logged(token, "blacklisted")
                /\ UNCHANGED pending
           ELSE /\ pending' = reinsert(pending, token, wrapper, now)
                /\ pushLog' = Logged(token, IF keyExists(pending, token, now)
                                            THEN "not set" ELSE "retried")
                /\ UNCHANGED blacklist
    /\ flush' = IF flush.errs \subseteq {token} THEN FlushIdle
                ELSE [flush EXCEPT !.errs = @ \ {token}]
    /\ UNCHANGED <<enq, failStreak, raced>>
    /\ UNCHANGED notPush

\* sendAll, one round of the loop over errs (a Go map: any order)
FlushErr(token) ==
    /\ flush.pc = "errs"
    /\ token \in flush.errs
    /\ LET wrapper == [flush.targets[token] EXCEPT !.retries = @ + 1]
       IN  IF retriesExceeded(wrapper)
           THEN /\ blacklist' = MapPut(blacklist, token,
                                       newItem(blacklistTimeout, "struct{}", NoOpt, now))
                /\ pushLog' = Logged(token, "blacklisted")
                /\ UNCHANGED pending
           ELSE /\ pending' = reinsert(pending, token, wrapper, now)
                /\ pushLog' = Logged(token, IF keyExists(pending, token, now)
                                            THEN "not set" ELSE "retried")
                /\ UNCHANGED blacklist
    /\ flush' = IF flush.errs = {token} THEN FlushIdle
                ELSE [flush EXCEPT !.errs = @ \ {token}]
    /\ UNCHANGED <<enq, failStreak, raced>>
    /\ UNCHANGED notPush

\* the goroutines that run until their context is cancelled
Tasks == {"events", "push"}

LifeInit == ctxDone = [task \in Tasks |-> FALSE]

\* cancel(): the context handed to the task's Run is cancelled
Cancel(task) ==
    /\ ~ctxDone[task]
    /\ ctxDone' = [ctxDone EXCEPT ![task] = TRUE]
    /\ UNCHANGED notLife

FlushStopped == [FlushIdle EXCEPT !.pc = "stopped"]

\* push Run: case <-ctx.Done(), return; the select is taken between two
\* calls of sendAll
pushRunDone ==
    /\ flush.pc = "idle"
    /\ ctxDone["push"]
    /\ flush' = FlushStopped
    /\ UNCHANGED <<pending, blacklist, enq, pushLog, failStreak, raced>>
    /\ UNCHANGED notPush

PushNext ==
    \/ \E token \in Tokens, event \in Events : EnqueueCheck(token, event)
    \/ EnqueueSet
    \/ FlushDrain
    \/ \E errs \in SUBSET DOMAIN flush.targets, err \in BOOLEAN : FlushSend(errs, err)
    \/ \E token \in Tokens : FlushErr(token)

(***************************************************************************)
(* modules/sse: the hub of server-sent-event streams.                      *)
(* s.mu is a RWMutex. Send holds it for reading from its first statement   *)
(* to its return, so while a Send is in its loop no writer (register,      *)
(* remove, Close) runs; each writer is one step.                           *)
(***************************************************************************)
MaxConns == 2
Devices == {"d1", "d2"}
ConnIds == 1..MaxConns
SseEvents == {NewMessageEnqueuedEvent}
\* without a keepalive period the serving loop only has fewer ways out
KeepAlivePeriods == {1}

\* make(chan eventWrapper, 8)
ChanCap == 8

ErrNoConnection == "no connection for device"
ErrNoActiveConnection == "no active connection for device"

\* eventWrapper{string(event.Type), data}, data the JSON of event.Data
sseEventWrapper(event) == [name |-> event.type, data |-> <<"json", event.data>>]

\* fmt.Sprintf("event: %s\ndata: %s", event.name, event.data), the text
\* writeToStream is handed for a frame
frameText(frame) == <<"event: ", frame.name, "data: ", frame.data>>

\* an sseConnection and the position of the Handler that made it:
\* closes counts the close(closeSignal) calls, wrote is the text the
\* Handler wrote to the stream latest
sseConnection(dev, pc) ==
    [dev |-> dev, channel |-> <<>>, closes |-> 0, pc |-> pc, wrote |-> <<>>]
NoConn == sseConnection("", "none")

\* full is the connections the call has counted as ErrorTypeBufferFull.
\* acc, regd and free are history: the frames each connection's buffer
\* took during the call, and the connections registered for the device,
\* and those of them with room in their buffer, when the call began
SendIdle ==
    [pc |-> "idle", dev |-> "", frame |-> <<>>, conns |-> <<>>, sent |-> 0,
     full |-> {},
     acc |-> [c \in ConnIds |-> 0], regd |-> {}, free |-> {}]
SSEInit ==
    /\ keepAlivePeriod \in KeepAlivePeriods
    /\ connections = EmptyMap
    /\ conn = [c \in ConnIds |-> NoConn]
    /\ nextConn = 1
    /\ snd = SendIdle
    /\ sndRet = "none"

\* (mutation of RLocked: the writers do not wait for the reader)
RLockedNever == FALSE

\* s.mu is held for reading: Send is between its RLock and its return
RLocked == snd.pc = "loop"

Range(q) == {q[i] : i \in DOMAIN q}
\* (mutation of Without: the slice is left as it is)
WithoutNothing(q, x) == q

\* append(connections[:i], connections[i+1:]...), i the place of x
Without(q, x) == SelectSeq(q, LAMBDA y : y # x)

\* Handler, to the top of its loop: registerConnection
registerConnection(dev) ==
    /\ ~RLocked
    /\ nextConn <= MaxConns
    /\ conn' = [conn EXCEPT ![nextConn] = sseConnection(dev, "serving")]
    /\ connections' = MapPut(connections, dev,
                             Append(IF dev \in DOMAIN connections
                                    THEN connections[dev] ELSE <<>>, nextConn))
    /\ nextConn' = nextConn + 1
    /\ UNCHANGED <<keepAlivePeriod, snd, sndRet>>
    /\ UNCHANGED notSSE

\* Handler, case event := <-conn.channel: the frame is written to the
\* stream; a failed write returns from the closure only, the loop goes on
HandlerEvent(c, ok) ==
    /\ conn[c].pc = "serving"
    /\ conn[c].channel # <<>>
    /\ conn' = [conn EXCEPT ![c].channel = Tail(@),
                            ![c].wrote = IF ok THEN frameText(Head(conn[c].channel))
                                         ELSE @]
    /\ UNCHANGED <<keepAlivePeriod, connections, nextConn, snd, sndRet>>
    /\ UNCHANGED notSSE

\* Handler, case ticker.C (no ticker unless keepAlivePeriod > 0): a failed
\* write of the keepalive returns from the loop
HandlerKeepalive(c, ok) ==
    /\ conn[c].pc = "serving"
    /\ keepAlivePeriod > 0
    /\ conn' = IF ok THEN conn ELSE [conn EXCEPT ![c].pc = "exiting"]
    /\ UNCHANGED <<keepAlivePeriod, connections, nextConn, snd, sndRet>>
    /\ UNCHANGED notSSE

\* Handler, case <-conn.closeSignal: return
HandlerClosed(c) ==
    /\ conn[c].pc = "serving"
    /\ conn[c].closes > 0
    /\ conn' = [conn EXCEPT ![c].pc = "exiting"]
    /\ UNCHANGED <<keepAlivePeriod, connections, nextConn, snd, sndRet>>
    /\ UNCHANGED notSSE

\* (mutation of removeConnection: the closeSignal is closed whether or not
\* the connection is still in the registry)
removeConnectionClosing(c) ==
    /\ ~RLocked
    /\ conn[c].pc = "exiting"
    /\ LET dev == conn[c].dev
           exists == dev \in DOMAIN connections
           found == exists /\ c \in Range(connections[dev])
           left == IF found THEN Without(connections[dev], c)
                   ELSE IF exists THEN connections[dev] ELSE <<>>
       IN  /\ conn' = [conn EXCEPT ![c].pc = "exited",
                                   ![c].channel = <<>>,
                                   ![c].closes = @ + 1]
           /\ connections' = IF ~exists THEN connections
                             ELSE IF left = <<>> THEN MapDelete(connections, dev)
                             ELSE MapPut(connections, dev, left)
    /\ UNCHANGED <<keepAlivePeriod, nextConn, snd, sndRet>>
    /\ UNCHANGED notSSE

\* Handler's deferred removeConnection(deviceID, conn.id)
removeConnection(c) ==
    /\ ~RLocked
    /\ conn[c].pc = "exiting"
    /\ LET dev == conn[c].dev
           exists == dev \in DOMAIN connections
           found == exists /\ c \in Range(connections[dev])
           left == IF found THEN Without(connections[dev], c)
                   ELSE IF exists THEN connections[dev] ELSE <<>>
       IN  /\ conn' = [conn EXCEPT ![c].pc = "exited",
                                   ![c].channel = <<>>,
                                   ![c].closes = IF found THEN @ + 1 ELSE @]
           /\ connections' = IF ~exists THEN connections
                             ELSE IF left = <<>> THEN MapDelete(connections, dev)
                             ELSE MapPut(connections, dev, left)
    /\ UNCHANGED <<keepAlivePeriod, nextConn, snd, sndRet>>
    /\ UNCHANGED notSSE

\* (mutation of Close: the devices are deleted, no closeSignal is closed)
CloseWithoutSignal ==
    /\ ~RLocked
    /\ connections' = EmptyMap
    /\ UNCHANGED <<keepAlivePeriod, conn, nextConn, snd, sndRet>>
    /\ UNCHANGED notSSE

\* Close: every registered connection's closeSignal is closed, every
\* device deleted
Close ==
    /\ ~RLocked
    /\ conn' = [c \in ConnIds |->
                   IF \E dev \in DOMAIN connections : c \in Range(connections[dev])
                   THEN [conn[c] EXCEPT !.closes = @ + 1] ELSE conn[c]]
    /\ connections' = EmptyMap
    /\ UNCHANGED <<keepAlivePeriod, nextConn, snd, sndRet>>
    /\ UNCHANGED notSSE

\* (mutation of deviceConnections: the connections of every device)
allConnections(m, dev) ==
    (IF "d1" \in DOMAIN m THEN m["d1"] ELSE <<>>)
        \o (IF "d2" \in DOMAIN m THEN m["d2"] ELSE <<>>)

\* connections, exists := s.connections[deviceID]
deviceConnections(m, dev) == m[dev]

\* (mutation of noneSent: Send reports no error whatever was sent)
noneSentIgnored(sent) == FALSE

\* if sent == 0
noneSent(sent) == sent = 0

\* (mutation of chanSend: the frame goes in front of the buffered ones)
chanSendFront(channel, frame) == <<frame>> \o channel

\* conn.channel <- eventWrapper{...}: the frame goes behind the buffered ones
chanSend(channel, frame) == Append(channel, frame)

\* (mutation of hasRoom: the channel takes whatever is sent)
hasRoomAlways(channel) == TRUE

\* a send on a channel made with capacity 8 can proceed
hasRoom(channel) == Len(channel) < ChanCap

\* (mutation of selectCases: the select has no default case)
selectCasesBlocking(cn) ==
    (IF hasRoom(cn.channel) THEN {"send"} ELSE {})
        \cup (IF cn.closes > 0 THEN {"closed"} ELSE {})

\* the cases of Send's select that can proceed on a connection; default
\* runs when none can
selectCases(cn) ==
    LET ready == (IF hasRoom(cn.channel) THEN {"send"} ELSE {})
                     \cup (IF cn.closes > 0 THEN {"closed"} ELSE {})
    IN  IF ready = {} THEN {"default"} ELSE ready

\* Send up to its loop: a device without connections is an error
sseSendBegin(dev, event) ==
    /\ snd.pc = "idle"
    /\ IF dev \notin DOMAIN connections
       THEN /\ sndRet' = ErrNoConnection
            /\ UNCHANGED snd
       ELSE /\ snd' = [SendIdle EXCEPT
                           !.pc = "loop", !.dev = dev,
                           !.frame = sseEventWrapper(event),
                           !.conns = deviceConnections(connections, dev),
                           !.regd = Range(connections[dev]),
                           !.free = {c \in Range(connections[dev]) :
                                        Len(conn[c].channel) < ChanCap}]
            /\ UNCHANGED sndRet
    /\ UNCHANGED <<keepAlivePeriod, connections, conn, nextConn>>

\* Send, one round of the loop over the device's connections
SendStep ==
    /\ snd.pc = "loop"
    /\ snd.conns # <<>>
    /\ LET c == Head(snd.conns)
       IN  \E case \in selectCases(conn[c]) :
              /\ conn' = IF case = "send"
                         THEN [conn EXCEPT ![c].channel = chanSend(@, snd.frame)]
                         ELSE conn
              /\ snd' = [snd EXCEPT
                            !.conns = Tail(@),
                            !.sent = IF case = "send" THEN @ + 1 ELSE @,
                            !.full = IF case = "default" THEN @ \cup {c} ELSE @,
                            !.acc = [x \in ConnIds |->
                                        snd.acc[x] + Len(conn'[x].channel)
                                                   - Len(conn[x].channel)]]
    /\ UNCHANGED <<keepAlivePeriod, connections, nextConn, sndRet>>
    /\ UNCHANGED notSSE

\* Send, after the loop: nothing sent is an error
sseSendEnd ==
    /\ snd.pc = "loop"
    /\ snd.conns = <<>>
    /\ sndRet' = IF noneSent(snd.sent) THEN ErrNoActiveConnection ELSE ErrNil
    /\ snd' = SendIdle
    /\ UNCHANGED <<keepAlivePeriod, connections, conn, nextConn>>

\* Send called on the hub alone
SendBegin(dev, event) ==
    /\ sseSendBegin(dev, event)
    /\ UNCHANGED notSSE

SendEnd ==
    /\ sseSendEnd
    /\ UNCHANGED notSSE

SSENext ==
    \/ \E dev \in Devices : registerConnection(dev)
    \/ \E c \in ConnIds, ok \in BOOLEAN : HandlerEvent(c, ok)
    \/ \E c \in ConnIds, ok \in BOOLEAN : HandlerKeepalive(c, ok)
    \/ \E c \in ConnIds : HandlerClosed(c)
    \/ \E c \in ConnIds : removeConnection(c)
    \/ Close
    \/ \E dev \in Devices, event \in SseEvents : SendBegin(dev, event)
    \/ SendStep
    \/ SendEnd

(***************************************************************************)
(* modules/events: the router. Notify puts an event on the queue; Run, one *)
(* goroutine, takes them off one at a time and hands each to the push      *)
(* dispatcher or the SSE hub, device by device.                            *)
(***************************************************************************)
\* make(chan eventWrapper, 128)
QueueCap == 128

ErrQueueFull == "event queue is full"
NilDeviceID == "<nil>"
NilPushToken == "<nil>"

routerEventWrapper(userID, deviceID, event) ==
    [UserID |-> userID, DeviceID |-> deviceID, Event |-> event]

\* the devices table behind deviceSvc.Select
Directory ==
    << [ID |-> "d1", UserID |-> "u1", PushToken |-> NilPushToken],
       [ID |-> "d2", UserID |-> "u1", PushToken |-> "t1"],
       [ID |-> "d3", UserID |-> "u1", PushToken |-> ""] >>

\* deviceSvc.Select(userID, filters...): the user's devices, the one with
\* the given id only when the event names one
Select(userID, deviceID) ==
    SelectSeq(Directory,
              LAMBDA d : d.UserID = userID
                         /\ (deviceID # NilDeviceID => d.ID = deviceID))

ConsIdle == [pc |-> "idle", wrapper |-> routerEventWrapper("", NilDeviceID, NoEvent),
             devices |-> <<>>]

\* the observer follows nothing, or the event w now at place pos of the
\* queue, or the event w that Run has taken
Unwatched == [st |-> "none", pos |-> 0, w |-> routerEventWrapper("", NilDeviceID, NoEvent)]

\* a delivery call: the device, the path and what the path was handed
Attempt(device, via, to) == [ID |-> device, via |-> via, to |-> to]

\* a history of at most MaxTraced events
Traced(h, w) == IF Len(h) < MaxTraced THEN Append(h, w) ELSE h

RouterInit ==
    /\ queue = <<>>
    /\ cons = ConsIdle
    /\ notifyRet = "none"
    /\ routerLog = {}
    /\ accepted = <<>>
    /\ started = <<>>
    /\ attempts = <<>>
    /\ watch = Unwatched

\* (mutation of queueFull: the queue takes whatever comes)
queueFullNever(q) == FALSE

\* the send on s.queue cannot proceed: select runs default
queueFull(q) == Len(q) >= QueueCap

Notify(userID, deviceID, event) ==
    /\ IF queueFull(queue)
       THEN /\ notifyRet' = ErrQueueFull
            /\ UNCHANGED <<queue, accepted>>
       ELSE /\ queue' = Append(queue, routerEventWrapper(userID, deviceID, event))
            /\ notifyRet' = ErrNil
            /\ accepted' = Traced(accepted, routerEventWrapper(userID, deviceID, event))
    /\ UNCHANGED <<cons, routerLog, started, attempts, watch>>
    /\ UNCHANGED notRouter

\* (mutation of receive: the receive takes the event put on the queue last)
receiveLast(q) == [wrapper |-> q[Len(q)], rest |-> SubSeq(q, 1, Len(q) - 1)]

\* <-s.queue: a channel hands out what it was sent in the order of the sends
receive(q) == [wrapper |-> Head(q), rest |-> Tail(q)]

\* (mutation of Dequeue: the receive goes on after Run has returned)
DequeueWhenStopped ==
    /\ cons.pc \in {"idle", "stopped"}
    /\ queue # <<>>
    /\ cons' = [pc |-> "select", wrapper |-> receive(queue).wrapper, devices |-> <<>>]
    /\ queue' = receive(queue).rest
    /\ started' = Traced(started, cons'.wrapper)
    /\ attempts' = <<>>
    /\ watch' = IF watch.st = "queued"
                THEN IF watch.pos = 1 THEN [watch EXCEPT !.st = "taken", !.pos = 0]
                     ELSE [watch EXCEPT !.pos = @ - 1]
                ELSE IF watch.st = "taken" THEN [watch EXCEPT !.st = "done"]
                ELSE watch
    /\ UNCHANGED <<notifyRet, routerLog, accepted>>
    /\ UNCHANGED notRouter

\* Run: case wrapper := <-s.queue
Dequeue ==
    /\ cons.pc = "idle"
    /\ queue # <<>>
    /\ cons' = [pc |-> "select", wrapper |-> receive(queue).wrapper, devices |-> <<>>]
    /\ queue' = receive(queue).rest
    /\ started' = Traced(started, cons'.wrapper)
    /\ attempts' = <<>>
    /\ watch' = IF watch.st = "queued"
                THEN IF watch.pos = 1 THEN [watch EXCEPT !.st = "taken", !.pos = 0]
                     ELSE [watch EXCEPT !.pos = @ - 1]
                ELSE IF watch.st = "taken" THEN [watch EXCEPT !.st = "done"]
                ELSE watch
    /\ UNCHANGED <<notifyRet, routerLog, accepted>>
    /\ UNCHANGED notRouter

LogStopped == "Event service stopped"
ConsStopped == [ConsIdle EXCEPT !.pc = "stopped"]

\* Run: case <-ctx.Done(), the stop is logged and Run returns; the select
\* is taken between two events
RunDone ==
    /\ cons.pc = "idle"
    /\ ctxDone["events"]
    /\ cons' = ConsStopped
    /\ routerLog' = routerLog \cup {LogStopped}
    /\ UNCHANGED <<queue, notifyRet, accepted, started, attempts, watch>>
    /\ UNCHANGED notRouter

\* the observer picks a queued event to follow
Track(pos) ==
    /\ watch.st \in {"none", "done"} \/ (watch.st = "taken" /\ cons.pc = "idle")
    /\ pos \in 1..Len(queue)
    /\ watch' = [st |-> "queued", pos |-> pos, w |-> queue[pos]]
    /\ UNCHANGED <<queue, cons, notifyRet, routerLog, accepted, started, attempts>>
    /\ UNCHANGED notRouter

LogSelectFailed == "Failed to select devices"
LogNoDevices == "No devices found for user"
LogPushFailed == "Failed to enqueue push notification"
LogSSEFailed == "Failed to send SSE notification"

\* processEvent: the devices are loaded; an error and no device both end it
SelectDevices(ok) ==
    /\ cons.pc = "select"
    /\ LET devices == Select(cons.wrapper.UserID, cons.wrapper.DeviceID)
       IN  /\ cons' = IF ~ok \/ devices = <<>> THEN ConsIdle
                       ELSE [cons EXCEPT !.pc = "loop", !.devices = devices]
           /\ routerLog' = IF ~ok THEN routerLog \cup {LogSelectFailed}
                           ELSE IF devices = <<>> THEN routerLog \cup {LogNoDevices}
                           ELSE routerLog
    /\ UNCHANGED <<queue, notifyRet, accepted, started, attempts, watch>>
    /\ UNCHANGED notRouter

\* (mutation of hasPushToken: the token is only tested for nil)
hasPushTokenNotNil(device) == device.PushToken # NilPushToken

\* device.PushToken != nil && *device.PushToken != ""
hasPushToken(device) == device.PushToken # NilPushToken /\ device.PushToken # ""

\* processEvent's loop moves to the next device, and ends after the last
nextDevice(c) ==
    IF Len(c.devices) <= 1 THEN ConsIdle
    ELSE [c EXCEPT !.pc = "loop", !.devices = Tail(@)]

\* (mutation of afterDelivery: an error ends the processing of the event)
afterDeliveryOrAbort(c, err) == IF err # ErrNil THEN ConsIdle ELSE nextDevice(c)

\* processEvent: the error of a delivery call is logged and counted, and
\* the loop goes on
afterDelivery(c, err) == nextDevice(c)

\* processEvent: if err != nil, s.logger.Error
afterDeliveryLog(returned, err, line) ==
    IF returned /\ err # ErrNil THEN routerLog \cup {line} ELSE routerLog

\* processEvent: s.pushSvc.Enqueue is called for a device with a token
DispatchPush ==
    /\ cons.pc = "loop"
    /\ hasPushToken(Head(cons.devices))
    /\ pushEnqueueCheck(Head(cons.devices).PushToken, cons.wrapper.Event)
    /\ cons' = IF enq'.pc = "set" THEN [cons EXCEPT !.pc = "push"]
               ELSE afterDelivery(cons, enq'.ret)
    /\ routerLog' = afterDeliveryLog(enq'.pc = "idle", enq'.ret, LogPushFailed)
    /\ attempts' = Append(attempts, Attempt(Head(cons.devices).ID, "push",
                                            Head(cons.devices).PushToken))
    /\ UNCHANGED <<queue, notifyRet, accepted, started, watch>>
    /\ UNCHANGED <<cacheVars, redisVars, sseVars, lifeVars, onlineVars>>

\* processEvent: s.pushSvc.Enqueue returns
DispatchPushReturn ==
    /\ cons.pc = "push"
    /\ pushEnqueueSet
    /\ cons' = afterDelivery(cons, enq'.ret)
    /\ routerLog' = afterDeliveryLog(TRUE, enq'.ret, LogPushFailed)
    /\ UNCHANGED <<queue, notifyRet, accepted, started, attempts, watch>>
    /\ UNCHANGED <<cacheVars, redisVars, sseVars, lifeVars, onlineVars>>

\* processEvent: s.sseSvc.Send is called for a device without a token
DispatchSSE ==
    /\ cons.pc = "loop"
    /\ ~hasPushToken(Head(cons.devices))
    /\ sseSendBegin(Head(cons.devices).ID, cons.wrapper.Event)
    /\ cons' = IF snd'.pc = "loop" THEN [cons EXCEPT !.pc = "sse"]
               ELSE afterDelivery(cons, sndRet')
    /\ routerLog' = afterDeliveryLog(snd'.pc = "idle", sndRet', LogSSEFailed)
    /\ attempts' = Append(attempts, Attempt(Head(cons.devices).ID, "sse",
                                            Head(cons.devices).ID))
    /\ UNCHANGED <<queue, notifyRet, accepted, started, watch>>
    /\ UNCHANGED <<cacheVars, redisVars, pushVars, lifeVars, onlineVars>>

\* processEvent: s.sseSvc.Send returns
DispatchSSEReturn ==
    /\ cons.pc = "sse"
    /\ sseSendEnd
    /\ cons' = afterDelivery(cons, sndRet')
    /\ routerLog' = afterDeliveryLog(TRUE, sndRet', LogSSEFailed)
    /\ UNCHANGED <<queue, notifyRet, accepted, started, attempts, watch>>
    /\ UNCHANGED <<cacheVars, redisVars, pushVars, lifeVars, onlineVars>>

(***************************************************************************)
(* online: the tracker of last-seen instants. Its cache is made without an *)
(* instance TTL (factory.New("online")); SetOnline reads the clock and     *)
(* then calls Set, persist calls Drain and then SetLastSeen, each cache    *)
(* call one step, so that SetOnline calls interleave with a flush.         *)
(***************************************************************************)
\* clock ticks in a second: the RFC 3339 text keeps whole seconds
TicksPerSecond == 2

ErrSetLastSeen == "can't set last seen"

\* time.Now().UTC().Format(time.RFC3339)
formatRFC3339(t) == <<"rfc3339", t \div TicksPerSecond>>

\* persist: time.Parse(time.RFC3339, v), and time.Now().UTC() for a text
\* that does not parse
parseLastSeen(v, t) ==
    IF Len(v) = 2 /\ v[1] = "rfc3339" THEN v[2] * TicksPerSecond ELSE t

\* the text SetOnline hands to Set; id is history, the number of the call
lastSeen(dt, id) == [text |-> dt, id |-> id]

Stamps == 1..MaxStamps
CallerIdle == [pc |-> "idle", dev |-> "", dt |-> <<>>, id |-> 0]
PersistIdle == [pc |-> "idle", items |-> EmptyMap, ret |-> "none"]
PersistReturned(err) == [PersistIdle EXCEPT !.ret = err]

\* next: the number the next SetOnline call gets; text: what each call
\* wrote; latest: per device, the call that wrote latest since the latest
\* Drain (0: none); atDrain: latest as the latest Drain found it; during:
\* the calls that wrote between a Drain and its SetLastSeen; handed: how
\* many times the text of each call was passed to SetLastSeen; passed: the
\* map the latest SetLastSeen was passed
OnlineInit ==
    /\ online = EmptyMap
    /\ callers = [p \in OnlineCallers |-> CallerIdle]
    /\ persist = PersistIdle
    /\ onlineLog = [next |-> 1,
                    text |-> [i \in Stamps |-> <<>>],
                    latest |-> [d \in Devices |-> 0],
                    atDrain |-> [d \in Devices |-> 0],
                    during |-> {},
                    handed |-> [i \in Stamps |-> 0],
                    passed |-> EmptyMap]

\* SetOnline, first statement: dt := time.Now().UTC().Format(time.RFC3339)
SetOnlineStamp(p, deviceID) ==
    /\ callers[p].pc = "idle"
    /\ onlineLog.next <= MaxStamps
    /\ callers' = [callers EXCEPT ![p] =
                      [pc |-> "set", dev |-> deviceID,
                       dt |-> formatRFC3339(now), id |-> onlineLog.next]]
    /\ onlineLog' = [onlineLog EXCEPT !.next = @ + 1]
    /\ UNCHANGED <<online, persist>>
    /\ UNCHANGED notOnline

\* SetOnline: s.cache.Set(ctx, deviceID, dt), and return
SetOnlineSet(p) ==
    /\ callers[p].pc = "set"
    /\ LET c == callers[p]
       IN  /\ online' = MapPut(online, c.dev,
                               newItem(0, lastSeen(c.dt, c.id), NoOpt, now))
           /\ onlineLog' = [onlineLog EXCEPT
                               !.text[c.id] = c.dt,
                               !.latest[c.dev] = c.id,
                               !.during = IF persist.pc = "drained"
                                          THEN @ \cup {c.id} ELSE @]
    /\ callers' = [callers EXCEPT ![p] = CallerIdle]
    /\ UNCHANGED persist
    /\ UNCHANGED notOnline

\* (mutation of persistDrain: the entries are read and left in the cache)
persistDrainKeeping ==
    /\ persist.pc = "idle"
    /\ LET cpy == cleanup(online, now)
       IN  /\ online' = cpy
           /\ persist' = IF DOMAIN cpy = {} THEN PersistReturned(ErrNil)
                         ELSE [pc |-> "drained", items |-> drainValues(cpy),
                               ret |-> "none"]
    /\ onlineLog' = [onlineLog EXCEPT
                        !.latest = [d \in Devices |-> 0],
                        !.atDrain = onlineLog.latest]
    /\ UNCHANGED callers
    /\ UNCHANGED notOnline

\* Run, case <-ticker.C, and persist up to its Drain: nothing drained,
\* return nil
persistDrain ==
    /\ persist.pc = "idle"
    /\ LET cpy == cleanup(online, now)
       IN  /\ online' = drainLeft(cpy)
           /\ persist' = IF DOMAIN cpy = {} THEN PersistReturned(ErrNil)
                         ELSE [pc |-> "drained", items |-> drainValues(cpy),
                               ret |-> "none"]
    /\ onlineLog' = [onlineLog EXCEPT
                        !.latest = [d \in Devices |-> 0],
                        !.atDrain = onlineLog.latest]
    /\ UNCHANGED callers
    /\ UNCHANGED notOnline

\* persist: the texts are parsed and the map passed to SetLastSeen, whose
\* error is returned; the drained entries are not put back
persistSetLastSeen(ok) ==
    /\ persist.pc = "drained"
    /\ LET drained == persist.items
           timestamps == [d \in DOMAIN drained |->
                             parseLastSeen(drained[d].text, now)]
       IN  onlineLog' = [onlineLog EXCEPT
                            !.passed = timestamps,
                            !.handed = [i \in Stamps |->
                                           IF \E d \in DOMAIN drained : drained[d].id = i
                                           THEN @[i] + 1 ELSE @[i]]]
    /\ persist' = PersistReturned(IF ok THEN ErrNil ELSE ErrSetLastSeen)
    /\ UNCHANGED <<online, callers>>
    /\ UNCHANGED notOnline

\* the tracker with its callers, and the clock
OnlineNext ==
    \/ \E p \in OnlineCallers, d \in Devices : SetOnlineStamp(p, d)
    \/ \E p \in OnlineCallers : SetOnlineSet(p)
    \/ persistDrain
    \/ \E ok \in BOOLEAN : persistSetLastSeen(ok)
    \/ Tick

\* the router's ingress under load: one producer's event, no stream client
QueueInputs == {routerEventWrapper("u1", NilDeviceID, NewMessageEnqueuedEvent)}

QueueNext ==
    \/ \E w \in QueueInputs : Notify(w.UserID, w.DeviceID, w.Event)
    \/ Dequeue
    \/ \E ok \in BOOLEAN : SelectDevices(ok)
    \/ DispatchPush
    \/ DispatchPushReturn
    \/ DispatchSSE

AllInit ==
    /\ CacheInit
    /\ ttl = 0
    /\ RedisInit
    /\ LifeInit
    /\ OnlineInit
    /\ PushInit
    /\ SSEInit
    /\ RouterInit

SpecQueue == AllInit /\ [][QueueNext]_vars

SpecOnline == AllInit /\ [][OnlineNext]_vars

\* the events of the router check: one for every device of user u1, one for
\* the device d3 alone, one for a user without devices
RouterInputs ==
    {routerEventWrapper("u1", NilDeviceID, NewMessageEnqueuedEvent),
     routerEventWrapper("u1", "d3", NewWebhooksUpdatedEvent),
     routerEventWrapper("u2", NilDeviceID, NewMessageEnqueuedEvent)}

\* Run, processEvent and the calls it makes: the steps of the one consumer
ConsumerStep ==
    \/ Dequeue
    \/ \E ok \in BOOLEAN : SelectDevices(ok)
    \/ DispatchPush
    \/ DispatchPushReturn
    \/ DispatchSSE
    \/ SendStep
    \/ DispatchSSEReturn

\* the router with both delivery paths behind it: MaxTraced events from the
\* producers, a stream client of device d1, the debounce task flushing
RouterNext ==
    \/ \E w \in RouterInputs :
          Len(accepted) < MaxTraced /\ Notify(w.UserID, w.DeviceID, w.Event)
    \/ Dequeue
    \/ \E ok \in BOOLEAN : SelectDevices(ok)
    \/ DispatchPush
    \/ DispatchPushReturn
    \/ DispatchSSE
    \/ SendStep
    \/ DispatchSSEReturn
    \/ registerConnection("d1")
    \/ \E c \in ConnIds : HandlerEvent(c, TRUE)
    \/ FlushDrain
    \/ \E errs \in SUBSET DOMAIN flush.targets, err \in BOOLEAN : FlushSend(errs, err)
    \/ \E token \in Tokens : FlushErr(token)

SpecRouter == AllInit /\ [][RouterNext]_vars

\* the router under a steady load: producers that keep up to MaxQueued
\* events queued, LiveStreams stream clients of device d1 whose serving
\* loops may stall,
\* a debounce task whose transport call may never return
LiveNext ==
    \/ \E w \in QueueInputs :
          Len(queue) < MaxQueued /\ Notify(w.UserID, w.DeviceID, w.Event)
    \/ \E pos \in 1..MaxQueued : Track(pos)
    \/ Dequeue
    \/ \E ok \in BOOLEAN : SelectDevices(ok)
    \/ DispatchPush
    \/ DispatchPushReturn
    \/ DispatchSSE
    \/ SendStep
    \/ DispatchSSEReturn
    \/ nextConn <= LiveStreams /\ registerConnection("d1")
    \/ \E c \in ConnIds : HandlerEvent(c, TRUE)
    \/ FlushDrain
    \/ \E err \in BOOLEAN : FlushSend({}, err)

\* the shutdown: producers that keep up to MaxQueued events queued, no
\* stream client, the debounce task flushing, and the two contexts
\* cancelled at any moment
StopNext ==
    \/ \E w \in QueueInputs :
          Len(queue) < MaxQueued /\ Notify(w.UserID, w.DeviceID, w.Event)
    \/ Dequeue
    \/ SelectDevices(TRUE)
    \/ DispatchPush
    \/ DispatchPushReturn
    \/ DispatchSSE
    \/ FlushDrain
    \/ \E errs \in SUBSET DOMAIN flush.targets, err \in BOOLEAN : FlushSend(errs, err)
    \/ \E token \in Tokens : FlushErr(token)
    \/ \E task \in Tasks : Cancel(task)
    \/ RunDone
    \/ pushRunDone

\* the steps of processEvent, which makes no blocking call
ProcessStep ==
    \/ SelectDevices(TRUE)
    \/ DispatchPush
    \/ DispatchPushReturn
    \/ DispatchSSE

\* the steps of sendAll after the drain: the transport call runs under
\* context.WithTimeout and returns
SendAllStep ==
    \/ \E errs \in SUBSET DOMAIN flush.targets, err \in BOOLEAN : FlushSend(errs, err)
    \/ \E token \in Tokens : FlushErr(token)

\* Each Run is a goroutine, which the scheduler lets run, and each call it
\* makes returns. A select with several ready cases picks one of them at
\* random: a case that is ready again and again is taken in the end.
SpecStop ==
    /\ AllInit /\ [][StopNext]_vars
    /\ WF_vars(ProcessStep) /\ WF_vars(SendAllStep)
    /\ SF_vars(RunDone) /\ SF_vars(pushRunDone)

\* Run is a goroutine of its own and the Go scheduler lets every runnable
\* goroutine run: the consumer takes its next step whenever it has one.
\* Nothing is assumed of the producers, the stream clients or the transport.
SpecLive == AllInit /\ [][LiveNext]_vars /\ WF_vars(ConsumerStep)

\* the hub on its own: its clients and its caller
SpecSSE == AllInit /\ [][SSENext]_vars

\* the streams of device d1 under events of two types, the callers of Send
\* waiting while a buffer holds MaxBuffered frames
StreamNext ==
    \/ registerConnection("d1")
    \/ \E event \in Events :
          /\ \A c \in ConnIds : Len(conn[c].channel) < MaxBuffered
          /\ SendBegin("d1", event)
    \/ SendStep
    \/ SendEnd
    \/ \E c \in ConnIds, ok \in BOOLEAN : HandlerEvent(c, ok)
    \/ \E c \in ConnIds : HandlerKeepalive(c, FALSE)
    \/ \E c \in ConnIds : removeConnection(c)

SpecStream == AllInit /\ [][StreamNext]_vars

\* a serving loop is a goroutine of its own, and a closed closeSignal stays
\* ready in its select: the loop takes that case in the end
SpecSSEFair ==
    AllInit /\ [][SSENext]_vars /\ \A c \in ConnIds : WF_vars(HandlerClosed(c))

\* the dispatcher on its own: its callers and the clock
PushOnlyNext ==
    \/ PushNext
    \/ Tick

SpecPush == AllInit /\ [][PushOnlyNext]_vars

CacheNext ==
    \/ \E k \in Keys, o \in Opts : Set(k, o)
    \/ \E k \in Keys, o \in Opts : SetOrFail(k, o)
    \/ \E k \in Keys : Delete(k)
    \/ \E k \in Keys, t \in Future : Get(k, t)
    \/ \E k \in Keys, t \in Future : GetAndDelete(k, t)
    \/ \E t \in Past : Cleanup(t)
    \/ \E t \in Past : Drain(t)
    \/ Tick

\* the cache on its own
CacheOnlyInit ==
    /\ CacheInit
    /\ RedisInit
    /\ LifeInit
    /\ OnlineInit
    /\ PushInit
    /\ SSEInit
    /\ RouterInit

SpecCache == CacheOnlyInit /\ [][CacheNext]_vars

\* the race of SetOrFail calls on one key of an empty cache
RaceNext ==
    \/ \E o \in Opts : SetOrFail(RaceKey, o)
    \/ Tick

SpecRace == CacheOnlyInit /\ [][RaceNext]_vars

\* the race of GetAndDelete calls on one key: the writes come first, and
\* once a GetAndDelete has run no writer runs
TakeNext ==
    \/ \E k \in Keys, o \in Opts : last.op # "GetAndDelete" /\ Set(k, o)
    \/ \E t \in Future : GetAndDelete(RaceKey, t)
    \/ Tick

SpecTake == CacheOnlyInit /\ [][TakeNext]_vars

\* the two backends side by side: each call of memoryCache, made with the
\* clock read when it runs, is followed by the same call of redisCache
\* before the next call or clock tick
PairNext ==
    \/ \E k \in Keys, o \in Opts : ~Pending /\ Set(k, o)
    \/ \E k \in Keys, o \in Opts : ~Pending /\ SetOrFail(k, o)
    \/ \E k \in Keys : ~Pending /\ Delete(k)
    \/ \E k \in Keys : ~Pending /\ Get(k, now)
    \/ \E k \in Keys : ~Pending /\ GetAndDelete(k, now)
    \/ ~Pending /\ Cleanup(now)
    \/ ~Pending /\ Drain(now)
    \/ ~Pending /\ Tick
    \/ RedisSet
    \/ \E reply \in {ErrNil, ErrSetTTL} : RedisSetOrFail(reply)
    \/ RedisDelete
    \/ RedisGet
    \/ RedisGetAndDelete
    \/ RedisCleanup
    \/ RedisDrain

SpecPair == CacheOnlyInit /\ [][PairNext]_vars

\* Set calls of redisCache side by side, and the clock
RedisSetNext ==
    \/ \E p \in RedisCallers, k \in Keys, o \in Opts : RedisSetHSet(p, k, o)
    \/ \E p \in RedisCallers : RedisSetHExpireAt(p)
    \/ Tick

SpecRedisSet == CacheOnlyInit /\ [][RedisSetNext]_vars

(***************************************************************************)
(* Properties of the cache                                                 *)
(***************************************************************************)
Written == 1..(nextVal - 1)

\* C1, as stated: of the SetOrFail calls racing on one key of a cache that
\* held no entry for it, exactly one has succeeded, its value is the one
\* stored, and every other call returned KeyExists.
C1_ExactlyOneWins ==
    last.op = "SetOrFail" =>
        /\ nextVal = 2
        /\ RaceKey \in DOMAIN items /\ items[RaceKey].value = 1
        /\ last.err \in {ErrNil, ErrKeyExists}

\* C1, amended: at least one of the racing SetOrFail calls succeeds, every
\* call that does not succeed returns KeyExists and finds a stored entry
\* whose expiry has not passed, the value stored is the one of the latest
\* successful call, and a call succeeds after another one only when the
\* entry that one stored has expired by then: exactly one call succeeds as
\* long as the stored entry has not expired.
C1_OneWinsUntilExpiry ==
    last.op = "SetOrFail" =>
        /\ nextVal >= 2
        /\ last.err \in {ErrNil, ErrKeyExists}
        /\ RaceKey \in DOMAIN items /\ items[RaceKey].value = nextVal - 1
        /\ fate[nextVal - 1] = "stored"
        /\ \A v \in Written \ {nextVal - 1} : fate[v] = "gone"
        /\ last.err = ErrKeyExists => ~Late(items[RaceKey], last.at)
        /\ ~Late(items[RaceKey], now) /\ last.err = ErrNil /\ nextVal = 2
               => last.value = 1

C1_Witness ==
    /\ last.op = "SetOrFail" /\ last.err = ErrKeyExists
    /\ nextVal = 2 /\ fate[1] = "stored"

\* C2: concurrent Drain calls partition the table. Every entry ever written
\* is in exactly one place: still stored, handed out by exactly one Drain
\* (and then it had not expired for that Drain), removed because it had
\* expired, or replaced or deleted by a writer; the snapshot a Drain returns
\* holds drained entries only, and no entry written before the latest Drain
\* is left in the table.
C2_DrainPartition ==
    /\ \A v \in Values :
          /\ fate[v] \in {"unborn", "stored", "drained", "expired", "gone"}
          /\ fate[v] = "stored" <=> Holds(items, v)
          /\ fate[v] = "unborn" <=> v >= nextVal
          /\ v <= drainMark => fate[v] # "stored"
    /\ last.op = "Drain" =>
          \A k \in DOMAIN last.snap : fate[last.snap[k]] = "drained"

C2_Witness ==
    /\ last.op = "Drain" /\ DOMAIN last.snap = Keys
    /\ drainMark = 2 /\ nextVal = 3 /\ items = EmptyMap

\* C7: a Get of key k that follows a completed Set(k, v), with the entry not
\* replaced or removed since, returns v unless the entry's expiry has passed
\* when Get tests it.
C7_GetAfterSet ==
    [][(last'.op = "Get" /\ last' # last) =>
          LET s == setVal[last'.key]
          IN  (s.value # NoValue /\ ~Late(s, last'.at)) =>
                  (last'.err = ErrNil /\ last'.value = s.value)]_vars

C7_Witness ==
    /\ last.op = "Get" /\ last.err = ErrNil
    /\ setVal[last.key].value = last.value
    /\ setVal[last.key].validUntil >= last.at

\* a step of Drain: the only step that sets last.op to "Drain"; any other
\* step that changes the table sets it to its own name
DrainStep == last'.op = "Drain" /\ (last' # last \/ items' # items)

\* C8: Drain returns exactly the entries stored when it runs whose expiry
\* had not passed at its clock reading, as a map from key to value, and
\* leaves the table empty, so that a Get of any key right after it, at any
\* later clock reading, returns KeyNotFound.
C8_DrainExact ==
    [][DrainStep =>
          /\ last'.snap = [k \in {y \in DOMAIN items : ~Late(items[y], last'.at)}
                              |-> items[k].value]
          /\ items' = EmptyMap
          /\ \A k \in Keys, t \in now..MaxTime :
                GetErrorOf(items', k, t) = ErrKeyNotFound]_vars

C8_Witness ==
    /\ last.op = "Drain" /\ Cardinality(DOMAIN last.snap) = 1
    /\ nextVal = 3 /\ items = EmptyMap
    /\ \E v \in Written : fate[v] = "expired"

(***************************************************************************)
(* Properties of the cache: the contract of each call                      *)
(***************************************************************************)
\* a step of SetOrFail that returns something new
SetOrFailStep == last'.op = "SetOrFail" /\ last' # last

\* the entry stored for k has not expired at t
LiveAt(m, k, t) == k \in DOMAIN m /\ ~Late(m[k], t)

\* the tables Set leaves when it stores value v for k in table m at instant t
SetResults(m, k, v, t) ==
    {MapPut(m, k, memoryItem(v, u)) :
        u \in {IF ttl > 0 THEN t + ttl ELSE ZeroTime}
                 \cup {t + d : d \in Durations} \cup Untils}

C24_FailedSetOrFailKeepsTable ==
    [][(SetOrFailStep /\ last'.err = ErrKeyExists) =>
          /\ DOMAIN items' = DOMAIN items
          /\ \A k \in DOMAIN items :
                /\ items'[k].value = items[k].value
                /\ items'[k].validUntil = items[k].validUntil
          /\ last'.key \in DOMAIN items'
          /\ items'[last'.key].value # last'.value
          /\ GetValueOf(items', last'.key, now) = items[last'.key].value]_vars

C24_Witness ==
    /\ last.op = "SetOrFail" /\ last.err = ErrKeyExists /\ last.value = 3
    /\ DOMAIN items = Keys /\ nextVal = 3
    /\ items[last.key].value = 1 /\ items[last.key].validUntil \in Untils

\* a step of Get or of GetAndDelete
ReadStep(op) == last'.op = op /\ (last' # last \/ items' # items)

\* what a read of key k owes its caller when the getter finds table m and
\* the expiry is tested at t
ReadContract(m, k, t, value, err) ==
    /\ err \in {ErrNil, ErrKeyNotFound, ErrKeyExpired}
    /\ err = ErrKeyNotFound <=> k \notin DOMAIN m
    /\ err = ErrKeyExpired <=> (k \in DOMAIN m /\ Late(m[k], t))
    /\ err = ErrNil => value = m[k].value
    /\ err # ErrNil => value = NoValue

\* C25: Get and GetAndDelete fail alike. Each returns KeyNotFound if and
\* only if no entry for the key is stored when it looks the key up,
\* KeyExpired if and only if an entry is stored and its expiry has passed
\* when the call tests it, and the stored value otherwise.
C25_ReadsFailAlike ==
    [][\A op \in {"Get", "GetAndDelete"} :
          ReadStep(op) =>
              ReadContract(items, last'.key, last'.at, last'.value, last'.err)]_vars

C25_Witness ==
    /\ last.op = "GetAndDelete" /\ last.err = ErrKeyExpired
    /\ last.key \notin DOMAIN items /\ DOMAIN items # {}
    /\ fate[1] = "gone" /\ nextVal = 3 /\ last.at = now

\* the calls that remove or replace entries
Removers == {"Cleanup", "Drain", "Delete", "GetAndDelete", "Set", "SetOrFail"}

\* C26: Get never changes the table. An entry whose expiry has passed stays
\* stored through every Get; a Get of its key at any later clock reading
\* returns KeyExpired, a Get that follows a Get of the same key that
\* returned KeyExpired returns KeyExpired again, and an entry is removed
\* or replaced by Cleanup, Drain, Delete, GetAndDelete, Set or SetOrFail only.
C26_GetLeavesTable ==
    /\ [][last'.op = "Get" => items' = items]_vars
    /\ [](\A k \in DOMAIN items :
            Late(items[k], now) =>
                \A t \in Future : GetErrorOf(items, k, t) = ErrKeyExpired)
    /\ [][(/\ last.op = "Get" /\ last.err = ErrKeyExpired
           /\ last'.op = "Get" /\ last'.key = last.key /\ last'.at >= last.at)
              => last'.err = ErrKeyExpired]_vars
    /\ [][items' # items => last'.op \in Removers]_vars

C26_Witness ==
    /\ last.op = "Get" /\ last.err = ErrKeyExpired /\ last.at < now
    /\ last.key \in DOMAIN items /\ Late(items[last.key], last.at)
    /\ fate[items[last.key].value] = "stored"

\* C27: GetAndDelete reads and removes in one step. Once it has returned,
\* the key is not stored. Of the GetAndDelete calls that race on a key with
\* no writer among them, the one that finds the entry returns its value
\* when the expiry has not passed at its test, and that entry is gone from
\* then on; every call after it finds nothing and returns KeyNotFound, so
\* no value is returned by two calls.
C27_GetAndDeleteTakesOnce ==
    /\ [][ReadStep("GetAndDelete") =>
            LET k == last'.key
            IN  /\ k \notin DOMAIN items'
                /\ \A y \in DOMAIN items \ {k} :
                       y \in DOMAIN items' /\ items'[y] = items[y]
                /\ LiveAt(items, k, last'.at) =>
                       /\ last'.err = ErrNil /\ last'.value = items[k].value
                       /\ fate[last'.value] = "stored"
                       /\ fate'[last'.value] = "gone"
                /\ k \notin DOMAIN items => last'.err = ErrKeyNotFound
                /\ (last.op = "GetAndDelete" /\ last.key = k) =>
                       last'.err = ErrKeyNotFound]_vars
    /\ [][\A v \in Values : fate[v] = "gone" => fate'[v] = "gone"]_vars
    /\ [](last.op = "GetAndDelete" => last.key \notin DOMAIN items)

C27_Witness ==
    /\ last.op = "GetAndDelete" /\ last.err = ErrKeyNotFound
    /\ last.key = RaceKey /\ nextVal = 2 /\ fate[1] = "gone"
    /\ items = EmptyMap /\ now = StartTime

\* a step of Cleanup
CleanupStep == last'.op = "Cleanup" /\ (last' # last \/ items' # items)

\* C28: Cleanup removes every entry whose expiry had passed at its clock
\* reading, so that a Get of its key from then on returns KeyNotFound and
\* not KeyExpired, and leaves every other entry, the entries without expiry
\* among them, stored with the value and the expiry it had; each of the
\* Cleanup calls that run at once does so, one after the other under the
\* lock, whatever the order of their clock readings.
C28_CleanupRemovesExpired ==
    [][CleanupStep =>
          /\ last'.err = ErrNil
          /\ \A k \in DOMAIN items :
                IF Late(items[k], last'.at)
                THEN /\ k \notin DOMAIN items'
                     /\ \A t \in Future : GetErrorOf(items', k, t) = ErrKeyNotFound
                ELSE /\ k \in DOMAIN items'
                     /\ items'[k].value = items[k].value
                     /\ items'[k].validUntil = items[k].validUntil
          /\ DOMAIN items' \subseteq DOMAIN items
          /\ (last.op = "Cleanup" /\ last'.at <= last.at) => items' = items]_vars

C28_Witness ==
    /\ last.op = "Cleanup" /\ last.at = now /\ nextVal = 4
    /\ Cardinality(DOMAIN items) = 1
    /\ \A k \in DOMAIN items : items[k].validUntil = ZeroTime
    /\ Cardinality({v \in Written : fate[v] = "expired"}) = 1

\* a step of Set or SetOrFail that stores an entry
StoreStep ==
    /\ last'.op \in {"Set", "SetOrFail"} /\ last'.err = ErrNil
    /\ last' # last \/ items' # items

\* C29: an entry stored with WithTTL(d) has the expiry "instant of the call
\* plus d" when d > 0 and no expiry when d <= 0; in that case a Get of its
\* key returns its value at every later clock reading and no Cleanup or
\* Drain removes it as expired.
C29_WithTTLExpiry ==
    [][(StoreStep /\ last'.opt.kind = "ttl") =>
          LET k == last'.key
              d == last'.opt.arg
          IN  /\ k \in DOMAIN items'
              /\ IF d > 0
                 THEN items'[k].validUntil = now + d
                 ELSE /\ items'[k].validUntil = ZeroTime
                      /\ \A t \in Future :
                            /\ GetErrorOf(items', k, t) = ErrNil
                            /\ k \in DOMAIN cleanup(items', t)]_vars

\* C30: the two backends are interchangeable. Given the same calls at the
\* same clock readings, redisCache returns from each call what memoryCache
\* returned from it: the same value, the same error and, from Drain, the
\* same entries.
C30_BackendsAgree ==
    (~Pending /\ last.op # "none") =>
        /\ rlast.op = last.op /\ rlast.key = last.key
        /\ rlast.err = last.err
        /\ rlast.value = last.value
        /\ rlast.snap = last.snap

\* C36: in redisCache an entry inserted by a successful SetOrFail that asks
\* for an expiry, by an option or by the TTL of the instance, carries that
\* expiry once the call has returned, as it would after Set.
C36_SetOrFailCarriesExpiry ==
    [][(Given("SetOrFail") /\ rsync' # rsync /\ rlast'.err = ErrNil) =>
          /\ last.key \in DOMAIN rhash'
          /\ rhash'[last.key].expireAt = redisOptions(last.opt, now)]_vars

\* C40: under Set calls of redisCache that run side by side on one key, the
\* expiry of the stored entry is the one asked for by the Set whose value
\* is stored: an entry that has an expiry has the one its writer asked for,
\* and once every Set has returned so has every entry.
C40_ExpiryOfStoredValue ==
    \A k \in DOMAIN rhash :
        /\ rhash[k].expireAt # ZeroTime =>
               rhash[k].expireAt = rasked[rhash[k].value]
        /\ (\A p \in RedisCallers : rset[p].pc = "idle") =>
               rhash[k].expireAt = rasked[rhash[k].value]

(***************************************************************************)
(* Properties of the push dispatcher                                       *)
(***************************************************************************)
\* the flush in progress has yet to handle the error of token t
Unhandled(t) == flush.pc = "errs" /\ t \in flush.errs

\* C3: a token named by the transport's error map on maxRetries flushes in
\* a row is blacklisted by the last of them, whatever Enqueue calls for it
\* come between the flushes: once that flush has handled the token, the
\* blacklist has an entry for it.
C3_BlacklistedAfterMaxRetries ==
    \A t \in Tokens :
        (failStreak[t] = maxRetries /\ ~Unhandled(t)) => t \in DOMAIN blacklist

\* C9: an Enqueue that completed after the latest drain is not clobbered by
\* the re-insertion of a failed item: the pending item of its token is its
\* event with retries 0.
C9_NewerEnqueueKept ==
    \A t \in Tokens :
        raced[t] # NoEvent =>
            /\ t \in DOMAIN pending
            /\ pending[t].value = eventWrapper(t, raced[t], 0)

C9_Witness ==
    /\ flush.pc = "errs"
    /\ flush.errs = {"t2"}
    /\ "t1" \in DOMAIN flush.targets
    /\ flush.targets["t1"] = eventWrapper("t1", NewMessageEnqueuedEvent, 1)
    /\ pushLog = Logged("t1", "not set")
    /\ raced["t1"] = NewWebhooksUpdatedEvent
    /\ "t1" \in DOMAIN pending
    /\ pending["t1"].value = eventWrapper("t1", NewWebhooksUpdatedEvent, 0)

\* C10: the retry count of a token's pending item never decreases from one
\* step to the next while the item stays pending (neither blacklisting nor
\* a delivery took it away), over Enqueue calls and flushes alike.
C10_RetriesNonDecreasing ==
    [][\A t \in Tokens :
          (t \in DOMAIN pending /\ t \in DOMAIN pending') =>
              pending'[t].value.retries >= pending[t].value.retries]_vars

\* the step on which an Enqueue call that stored its event returns
EnqueueStores == enq.pc = "set" /\ enq'.pc = "idle"

\* C11: the pending cache holds at most one item per token, the one filed
\* under that token, and when Enqueue(token, e) returns for a token that it
\* did not find blacklisted, the pending item of the token is e with retry
\* count 0, whatever was pending for the token before; the items of the
\* other tokens are untouched
C11_EnqueueReplacesPending ==
    /\ [](\A t \in DOMAIN pending : t \in Tokens /\ pending[t].value.token = t)
    /\ [][EnqueueStores =>
            /\ enq.token \in DOMAIN pending'
            /\ pending'[enq.token].value = eventWrapper(enq.token, enq.event, 0)
            /\ DOMAIN pending' = DOMAIN pending \cup {enq.token}
            /\ \A t \in DOMAIN pending \ {enq.token} : pending'[t] = pending[t]]_vars

\* an Enqueue replaced the item that a failed delivery had put back with
\* retry count 1
C11_Witness ==
    /\ pushLog = Logged("t1", "retried")
    /\ failStreak["t1"] = 1
    /\ flush = FlushIdle
    /\ raced["t1"] # NoEvent
    /\ "t1" \in DOMAIN pending
    /\ pending["t1"].value = eventWrapper("t1", raced["t1"], 0)

\* the blacklist holds an entry of token t that has not expired
OnBlacklist(t) == t \in DOMAIN blacklist /\ ~isExpired(blacklist[t], now)

\* a step of a call Enqueue(t, e) that starts: it either goes on to store e
\* or logs the token as skipped and returns
EnqueueCalled(t) ==
    /\ enq.pc = "idle"
    /\ \/ enq'.pc = "set" /\ enq'.token = t
       \/ /\ enq'.pc = "idle"
          /\ pushLog' = Logged(t, "skipped")
          /\ flush' = flush
          /\ <<enq, pushLog>>' # <<enq, pushLog>>

\* C12: Enqueue(token, e) called while the blacklist holds a non-expired
\* entry of the token returns nil and changes neither the pending cache nor
\* the blacklist, and nothing of e is kept for the transport
C12_BlacklistedEnqueueSkipped ==
    [][\A t \in Tokens :
          (OnBlacklist(t) /\ EnqueueCalled(t)) =>
              /\ enq' = EnqueueReturned(ErrNil)
              /\ pushLog' = Logged(t, "skipped")
              /\ pending' = pending
              /\ blacklist' = blacklist
              /\ flush' = flush]_vars

C12_Witness ==
    /\ OnBlacklist("t1")
    /\ pushLog = Logged("t1", "skipped")
    /\ enq = EnqueueReturned(ErrNil)
    /\ "t1" \notin DOMAIN pending
    /\ flush = FlushIdle

\* the step on which the transport call of sendAll returns a
\* transport-level error
TransportFailed ==
    /\ flush.pc = "send"
    /\ flush' # flush
    /\ pushLog' = Logged("", "can't send messages")

\* C13: when the transport returns a transport-level error the whole
\* drained batch is lost: sendAll returns without putting any item back,
\* without raising a retry count and without blacklisting, and the pending
\* cache then holds only what was enqueued after the drain
C13_TransportErrorLosesBatch ==
    [][TransportFailed =>
          /\ flush' = FlushIdle
          /\ pending' = pending
          /\ blacklist' = blacklist
          /\ \A t \in DOMAIN pending' :
                /\ raced[t] # NoEvent
                /\ pending'[t].value = eventWrapper(t, raced[t], 0)]_vars

\* a batch was lost and the pending cache holds the one event that was
\* enqueued while the transport call was running
C13_Witness ==
    /\ pushLog = Logged("", "can't send messages")
    /\ flush = FlushIdle
    /\ failStreak = [t \in Tokens |-> 0]
    /\ DOMAIN pending = {"t1"}
    /\ raced["t1"] # NoEvent
    /\ raced["t2"] = NoEvent
    /\ blacklist = EmptyMap

\* the blacklist entry of token t has outlived its TTL
Lapsed(t) == t \in DOMAIN blacklist /\ Late(blacklist[t], now)

\* the step on which sendAll drains the pending cache and calls the transport
FlushSubmits == flush.pc = "idle" /\ flush'.pc = "send"

\* C31: blacklisting is time-boxed. An Enqueue for a token whose blacklist
\* entry has outlived its TTL is not skipped: it goes on to store its event
\* as the pending item of the token, and the flush that drains next hands
\* every pending item, that one included, to the transport.
C31_BlacklistTimeBoxed ==
    /\ [][\A t \in Tokens :
            (Lapsed(t) /\ EnqueueCalled(t)) =>
                /\ enq'.pc = "set" /\ enq'.token = t
                /\ pushLog' = pushLog]_vars
    /\ [][(EnqueueStores /\ Lapsed(enq.token)) =>
            /\ enq.token \in DOMAIN pending'
            /\ pending'[enq.token].value = eventWrapper(enq.token, enq.event, 0)]_vars
    /\ [][FlushSubmits =>
            /\ DOMAIN flush'.targets = DOMAIN pending
            /\ \A t \in DOMAIN pending : flush'.targets[t] = pending[t].value
            /\ pending' = EmptyMap]_vars

\* token t1 was blacklisted, the entry has lapsed, and an event enqueued for
\* it since is in the batch the transport is called with
C31_Witness ==
    /\ Lapsed("t1")
    /\ flush.pc = "send"
    /\ "t1" \in DOMAIN flush.targets
    /\ flush.targets["t1"].retries = 0
    /\ enq = EnqueueReturned(ErrNil)

\* cache m2 holds for token t what cache m holds for it
SameEntry(m2, m, t) ==
    /\ t \in DOMAIN m2 <=> t \in DOMAIN m
    /\ t \in DOMAIN m /\ t \in DOMAIN m2 => m2[t] = m[t]

\* a step that is no step of Enqueue
NotEnqueue == enq' = enq

\* C32: a token of the batch that the error map does not name is done with
\* once the transport call has returned without a transport-level error.
\* The call itself changes neither cache; while sendAll works through the
\* error map it puts no pending item back for such a token and adds no
\* blacklist entry for it, so that only an Enqueue changes what is pending
\* for it; and sendAll ends with nothing kept of the batch, retry counts
\* included.
C32_DeliveredTokensDropped ==
    /\ [][(flush.pc = "send" /\ NotEnqueue) =>
            pending' = pending /\ blacklist' = blacklist]_vars
    /\ [][\A t \in Tokens :
            (/\ flush.pc = "errs" /\ NotEnqueue
             /\ t \in DOMAIN flush.targets /\ t \notin flush.errs) =>
                /\ SameEntry(pending', pending, t)
                /\ SameEntry(blacklist', blacklist, t)]_vars
    /\ [](flush.pc = "errs" => flush.errs # {} /\ flush.errs \subseteq DOMAIN flush.targets)
    /\ [](flush.pc = "idle" => flush = FlushIdle)

\* the transport has returned an error map that names t2 and not t1, and
\* sendAll is about to work through it
C32_Witness ==
    /\ flush.pc = "errs"
    /\ DOMAIN flush.targets = Tokens
    /\ flush.errs = {"t2"}
    /\ pushLog = Logged("", "can't send some")
    /\ pending = EmptyMap /\ blacklist = EmptyMap

\* Run takes an event off the queue
Receives == queue # <<>> /\ queue' = Tail(queue)

\* C33, as stated: from the cancellation on, no event is taken off the
\* router queue and no pending item is handed to the transport.
C33_NothingAfterCancel ==
    [][/\ ctxDone["events"] => ~Receives
       /\ ctxDone["push"] => ~FlushSubmits]_vars

\* C33, amended: once its context is cancelled each of the two tasks
\* returns from Run, and from its return on what is left in memory stays
\* there: no event is taken off the router queue or dispatched, and the
\* pending cache is never drained nor the transport called. Until it
\* returns, a task whose context is cancelled may still take the events or
\* make the flushes that are ready when it selects.
C33_StoppedDiscards ==
    /\ \A task \in Tasks :
          ctxDone[task] ~> (IF task = "events" THEN cons = ConsStopped
                            ELSE flush = FlushStopped)
    /\ [](cons.pc = "stopped" => ctxDone["events"])
    /\ [](flush.pc = "stopped" => ctxDone["push"])
    /\ [][cons.pc = "stopped" =>
            /\ cons' = cons /\ ~Receives
            /\ \A i \in 1..Len(queue) : i <= Len(queue') /\ queue'[i] = queue[i]
            /\ attempts' = attempts /\ enq' = enq /\ snd' = snd]_vars
    /\ [][flush.pc = "stopped" =>
            /\ flush' = flush
            /\ \A t \in DOMAIN pending : t \in DOMAIN pending']_vars

\* both tasks have returned, with an event left on the queue and an item
\* left pending
C33_Witness ==
    /\ cons = ConsStopped /\ flush = FlushStopped
    /\ queue # <<>> /\ pending # EmptyMap
    /\ LogStopped \in routerLog

\* C34: no flush hands the transport an event for a token that has a
\* blacklist entry which has not expired when the transport is called,
\* however the Enqueue calls interleave with the flushes.
C34_NoSubmitWhileBlacklisted ==
    [][FlushSubmits =>
          \A t \in DOMAIN flush'.targets : ~OnBlacklist(t)]_vars

\* C37: retry is bounded. The retries of every pending item, and of every
\* item of a batch, are in 0..maxRetries-1, and an item with retries r > 0
\* comes into the pending cache only as the item of a failed submission
\* with its retries raised by one; so an event is handed to the transport
\* maxRetries times at most.
C37_RetryBounded ==
    /\ [](\A t \in DOMAIN pending :
            pending[t].value.retries \in 0..(maxRetries - 1))
    /\ [](\A t \in DOMAIN flush.targets :
            flush.targets[t].retries \in 0..(maxRetries - 1))
    /\ [][\A t \in DOMAIN pending' :
            (/\ pending'[t].value.retries > 0
             /\ (t \notin DOMAIN pending \/ pending[t] # pending'[t]))
                => /\ Unhandled(t)
                   /\ pending'[t].value =
                          [flush.targets[t] EXCEPT !.retries = @ + 1]]_vars

\* an event that has failed maxRetries - 1 times is being submitted again
C37_Witness ==
    /\ flush.pc = "send"
    /\ \E t \in DOMAIN flush.targets :
          flush.targets[t].retries = maxRetries - 1

(***************************************************************************)
(* Properties of the SSE hub                                               *)
(***************************************************************************)
\* the step on which a Send that went through its loop returns
SendReturns == snd.pc = "loop" /\ snd'.pc = "idle"

\* the step on which a Send returns without entering its loop
SendRefuses == snd.pc = "idle" /\ snd'.pc = "idle" /\ sndRet' # sndRet

Accepted == {c \in ConnIds : snd.acc[c] > 0}

\* C5: Send returns an error if and only if no connection's buffer took
\* the frame: the device has no connection, or none of its connections
\* took it, which needs every buffer to have been full when the call
\* began; one connection taking it is enough for no error.
C5_SendErrorIffNoneAccepted ==
    [][/\ SendReturns =>
            /\ sndRet' # ErrNil <=> Accepted = {}
            /\ sndRet' # ErrNil => snd.free = {}
       /\ SendRefuses =>
            /\ sndRet' = ErrNoConnection
            /\ conn' = conn
            /\ \A dev \in DOMAIN connections : connections[dev] # <<>>]_vars

C5_Witness ==
    /\ snd.pc = "idle"
    /\ sndRet = ErrNil
    /\ "d1" \in DOMAIN connections
    /\ connections["d1"] = <<1, 2>>
    /\ Len(conn[1].channel) = ChanCap
    /\ Len(conn[2].channel) = 1

\* C6: a Send for a device whose registered connections all have room in
\* their buffers puts the frame once on each of them and on no other
\* connection.
C6_SendOncePerConnection ==
    [][(SendReturns /\ snd.free = snd.regd) =>
          /\ snd.regd = Range(connections[snd.dev])
          /\ \A c \in ConnIds : snd.acc[c] = IF c \in snd.regd THEN 1 ELSE 0]_vars

C6_Witness ==
    /\ snd.pc = "idle"
    /\ sndRet = ErrNil
    /\ "d1" \in DOMAIN connections
    /\ connections["d1"] = <<1, 2>>
    /\ Len(conn[1].channel) = 1
    /\ Len(conn[2].channel) = 1

\* a round of Send's loop
SendRound == snd.pc = "loop" /\ snd'.pc = "loop" /\ snd'.conns # snd.conns

\* C18: Send never waits for a connection. A round of its loop can always
\* be taken; on a connection whose buffer holds 8 frames it leaves the
\* buffer as it is, counts the connection as BufferFull, counts nothing as
\* sent and goes on with the next connection; on any other it puts the frame
\* into the buffer. When the call returns every connection of the device
\* it did not count as full has taken the frame, and no buffer ever holds
\* more than 8 frames
C18_FullBufferSkipped ==
    /\ [](\A c \in ConnIds : Len(conn[c].channel) <= ChanCap)
    /\ []((snd.pc = "loop" /\ snd.conns # <<>>) => ENABLED SendStep)
    /\ [][SendRound =>
            LET c == Head(snd.conns)
            IN  /\ snd'.conns = Tail(snd.conns)
                /\ \A x \in ConnIds \ {c} : conn'[x] = conn[x]
                /\ IF Len(conn[c].channel) = ChanCap
                   THEN /\ conn'[c] = conn[c]
                        /\ snd'.full = snd.full \cup {c}
                        /\ snd'.sent = snd.sent
                   ELSE /\ conn'[c].channel = Append(conn[c].channel, snd.frame)
                        /\ snd'.full = snd.full
                        /\ snd'.sent = snd.sent + 1]_vars
    /\ [][SendReturns =>
            \A c \in snd.regd :
               /\ c \in snd.full => c \notin snd.free
               /\ c \notin snd.full => snd.acc[c] = 1]_vars

\* a Send is through its loop: the first connection of the device had a
\* full buffer and was counted, the second took the frame
C18_Witness ==
    /\ snd.pc = "loop"
    /\ snd.conns = <<>>
    /\ snd.regd = {1, 2}
    /\ snd.full = {1}
    /\ Len(conn[1].channel) = ChanCap
    /\ snd.acc[2] = 1
    /\ snd.sent = 1

\* connection c is in the registry
Registered(c) == \E dev \in DOMAIN connections : c \in Range(connections[dev])

\* no frame is put into the buffer of a connection of the set cs
NoEnqueueOn(cs) ==
    \A c \in cs : Len(conn'[c].channel) <= Len(conn[c].channel)

\* C19 as stated: once the serving loop of a connection has exited, the
\* connection is out of the registry, so that no Send puts a frame into
\* its buffer any more
C19_LoopExitDeregisters ==
    [][NoEnqueueOn({c \in ConnIds : conn[c].pc \in {"exiting", "exited"}})]_vars

\* C19, amended: whatever made the serving loop return, the deferred
\* removeConnection can run as soon as no Send holds the registry lock, and
\* once it has run the connection is not in the registry and no Send puts
\* a frame into its buffer
C19_RemovedNotRegistered ==
    /\ [](\A c \in ConnIds : conn[c].pc = "exited" => ~Registered(c))
    /\ [][NoEnqueueOn({c \in ConnIds : conn[c].pc = "exited"})]_vars
    /\ [](\A c \in ConnIds :
            (conn[c].pc = "exiting" /\ ~RLocked) => ENABLED removeConnection(c))
    /\ [][\A c \in ConnIds :
            (conn[c].pc = "exiting" /\ conn'[c].pc # "exiting") =>
                conn'[c].pc = "exited" /\ ~Registered(c)']_vars

\* the first connection of device d1 is removed, and a later Send for d1
\* has put its frame into the buffer of the second connection alone
C19_Witness ==
    /\ conn[1].pc = "exited"
    /\ conn[1].dev = "d1"
    /\ conn[2].pc = "serving"
    /\ conn[2].closes = 0
    /\ snd.pc = "loop"
    /\ snd.dev = "d1"
    /\ snd.regd = {2}
    /\ snd.acc[2] = 1

\* a Send call holds s.mu for reading
SendHoldsLock == snd.pc = "loop"

\* a step that puts a frame into the buffer of a connection
Enqueues == \E c \in ConnIds : Len(conn'[c].channel) > Len(conn[c].channel)

CloseStep ==
    /\ connections # EmptyMap
    /\ connections' = EmptyMap
    /\ \A c \in ConnIds : conn'[c].pc = conn[c].pc

\* C21: Close leaves the registry empty and the closeSignal of every
\* connection that was registered closed; the serving loop of a connection
\* whose closeSignal is closed exits in the end; and as long as the
\* registry holds no connection of a device, a Send for the device can be
\* called and returns the no-connection error without entering its loop
C21_CloseEndsEveryStream ==
    /\ [][CloseStep =>
            \A c \in ConnIds :
               IF Registered(c) THEN conn'[c].closes > 0 ELSE conn'[c] = conn[c]]_vars
    /\ \A c \in ConnIds :
          (conn[c].pc = "serving" /\ conn[c].closes > 0) ~> (conn[c].pc # "serving")
    /\ [](snd.pc = "idle" =>
            \A dev \in Devices, event \in SseEvents : ENABLED SendBegin(dev, event))
    /\ [](snd.pc = "loop" => snd.dev \in DOMAIN connections)
    /\ [][(snd.pc = "idle" /\ connections = EmptyMap /\ connections' = EmptyMap
              /\ <<snd, sndRet>>' # <<snd, sndRet>>) =>
            snd' = snd /\ sndRet' = ErrNoConnection]_vars

\* after Close both streams of device d1 are out of the registry with
\* their closeSignal closed, the serving loop of the first has exited, and
\* a Send has returned the no-connection error
C21_Witness ==
    /\ connections = EmptyMap
    /\ \A c \in ConnIds : conn[c].dev = "d1" /\ conn[c].closes = 1
    /\ conn[1].pc = "exited"
    /\ conn[2].pc = "serving"
    /\ snd.pc = "idle"
    /\ sndRet = ErrNoConnection

\* C22: the buffer of a connection changes in three ways only: a round of
\* Send puts its frame behind the buffered ones, the serving loop takes the
\* frame in front, or the removal of the connection drops the buffer. What
\* the serving loop writes to the stream is the frame it has just taken,
\* so the frames reach the stream in the order in which they were
\* accepted, each at most once
C22_FramesInSendOrder ==
    /\ [][\A c \in ConnIds :
            conn'[c].channel # conn[c].channel =>
               \/ /\ snd.pc = "loop" /\ snd.conns # <<>> /\ Head(snd.conns) = c
                  /\ conn'[c].channel = Append(conn[c].channel, snd.frame)
                  /\ conn'[c].wrote = conn[c].wrote
               \/ /\ conn[c].channel # <<>>
                  /\ conn'[c].channel = Tail(conn[c].channel)
                  /\ conn'[c].wrote \in {conn[c].wrote, frameText(Head(conn[c].channel))}
               \/ /\ conn'[c].pc = "exited"
                  /\ conn'[c].channel = <<>>
                  /\ conn'[c].wrote = conn[c].wrote]_vars
    /\ [][\A c \in ConnIds :
            conn'[c].wrote # conn[c].wrote =>
               /\ conn[c].channel # <<>>
               /\ conn'[c].wrote = frameText(Head(conn[c].channel))
               /\ conn'[c].channel = Tail(conn[c].channel)]_vars

\* the stream of connection 1 has just been written the frame of a
\* MessageEnqueued event, with a WebhooksUpdated frame and another
\* MessageEnqueued frame accepted after it waiting in that order
C22_Witness ==
    /\ conn[1].pc = "serving"
    /\ conn[1].wrote = frameText(sseEventWrapper(NewMessageEnqueuedEvent))
    /\ conn[1].channel = << sseEventWrapper(NewWebhooksUpdatedEvent),
                            sseEventWrapper(NewMessageEnqueuedEvent) >>

\* C35: a failed write to the stream, of an event frame or of a keepalive,
\* ends the serving loop of the connection, which is then deregistered: a
\* connection whose stream is broken does not go on serving.
C35_FailedWriteEndsLoop ==
    [][\A c \in ConnIds :
          (HandlerEvent(c, FALSE) \/ HandlerKeepalive(c, FALSE))
              => conn'[c].pc = "exiting"]_vars

\* C38: the closeSignal of a connection is closed once at most, however
\* Close, the exits of the serving loops and new registrations for the
\* device interleave: a step closes the signal of a connection only if it
\* is registered and not yet closed, and the removal made by one serving
\* loop closes no signal but that of its own connection.
C38_ClosedOnce ==
    /\ [](\A c \in ConnIds : conn[c].closes <= 1)
    /\ [][\A c \in ConnIds :
            conn'[c].closes # conn[c].closes
                => /\ conn[c].closes = 0
                   /\ conn[c].dev \in DOMAIN connections
                   /\ c \in Range(connections[conn[c].dev])
                   /\ conn[c].dev \notin DOMAIN connections'
                         \/ c \notin Range(connections'[conn[c].dev])]_vars
    /\ [][\A c \in ConnIds :
            (conn[c].pc = "exiting" /\ conn'[c].pc = "exited")
                => \A x \in ConnIds \ {c} : conn'[x] = conn[x]]_vars

\* the serving loop of a connection that Close had closed has removed it
\* while a later connection of the same device is registered and open
C38_Witness ==
    /\ conn[1].pc = "exited" /\ conn[1].closes = 1
    /\ conn[2].pc = "serving" /\ conn[2].closes = 0
    /\ conn[2].dev = conn[1].dev
    /\ conn[2].dev \in DOMAIN connections
    /\ 2 \in Range(connections[conn[2].dev])

(***************************************************************************)
(* Properties of the event router                                          *)
(***************************************************************************)
\* C4: Notify never blocks: with 128 events in the queue it returns the
\* queue-full error and leaves the queue as it is; otherwise it puts the
\* event at the tail and returns no error. The queue never holds more
\* than 128 events.
C4_NotifyBounded ==
    /\ [](Len(queue) <= QueueCap)
    /\ [](\A w \in QueueInputs : ENABLED Notify(w.UserID, w.DeviceID, w.Event))
    /\ [][/\ Len(queue') > Len(queue) =>
               /\ Len(queue) < QueueCap
               /\ \E w \in QueueInputs : queue' = Append(queue, w)
               /\ notifyRet' = ErrNil
          /\ (notifyRet' # notifyRet /\ notifyRet' = ErrQueueFull) =>
               /\ Len(queue) = QueueCap
               /\ queue' = queue
          /\ (notifyRet' # notifyRet /\ notifyRet' = ErrNil) =>
               /\ Len(queue) < QueueCap
               /\ \E w \in QueueInputs : queue' = Append(queue, w)]_vars

C4_Witness ==
    /\ Len(queue) = QueueCap
    /\ notifyRet = ErrQueueFull

\* C14: the one consumer takes the events in the order in which the Notify
\* calls put them on the queue, and it takes an event only when the
\* processing of every earlier event, the delivery calls included, is over
C14_ProcessedInNotifyOrder ==
    /\ [](LET n == Len(started)
          IN  /\ n <= Len(accepted)
              /\ started = SubSeq(accepted, 1, n)
              /\ n < MaxTraced =>
                    \A i \in 1..Len(queue) :
                       n + i <= Len(accepted) => queue[i] = accepted[n + i])
    /\ [][started' # started =>
            /\ cons.pc = "idle" /\ enq.pc = "idle" /\ snd.pc = "idle"
            /\ cons'.wrapper = accepted[Len(started')]
            /\ cons'.pc = "select"]_vars

\* of three different events the first two have been processed in the
\* order of their Notify calls and the third is next in the queue
C14_Witness ==
    /\ accepted = << routerEventWrapper("u1", "d3", NewWebhooksUpdatedEvent),
                     routerEventWrapper("u2", NilDeviceID, NewMessageEnqueuedEvent),
                     routerEventWrapper("u1", NilDeviceID, NewMessageEnqueuedEvent) >>
    /\ started = SubSeq(accepted, 1, 2)
    /\ Len(queue) = 1
    /\ cons.pc = "idle"

\* the devices an event is for: the named device of the user, or all the
\* devices of the user when none is named
Targets(w) ==
    SelectSeq(Directory,
              LAMBDA d : d.UserID = w.UserID
                         /\ (w.DeviceID = NilDeviceID \/ d.ID = w.DeviceID))

\* a step on which a delivery call of the consumer returns
DeliveryReturns ==
    /\ cons.pc \in {"loop", "push", "sse"}
    /\ cons'.pc \in {"loop", "idle"}
    /\ cons' # cons

\* C15: whatever a delivery call returns, the consumer goes on with the
\* next device of the event, and after the last device, after a failed
\* directory lookup and after a lookup that finds no device it is back at
\* its queue: it is never stopped and always has a next step when an event
\* is queued or in processing
C15_FailuresDoNotAbort ==
    /\ [][DeliveryReturns =>
            IF Len(cons.devices) > 1
            THEN cons' = [pc |-> "loop", wrapper |-> cons.wrapper,
                          devices |-> Tail(cons.devices)]
            ELSE cons' = ConsIdle]_vars
    /\ [][(cons.pc = "select" /\ cons'.pc # "select") =>
            /\ queue' = queue
            /\ \/ cons' = ConsIdle
               \/ cons' = [pc |-> "loop", wrapper |-> cons.wrapper,
                            devices |-> Targets(cons.wrapper)]]_vars
    /\ [](cons.pc \in {"idle", "select", "loop", "push", "sse"})
    /\ []((cons.pc # "idle" \/ queue # <<>>) => ENABLED ConsumerStep)

\* after a failed directory lookup for an earlier event the consumer is
\* processing a later one, and a failed Send for device d1, which has no
\* stream, was followed by the Enqueue for device d2
C15_Witness ==
    /\ LogSelectFailed \in routerLog
    /\ connections = EmptyMap
    /\ sndRet = ErrNoConnection
    /\ cons.pc = "loop"
    /\ Len(cons.devices) = 1
    /\ attempts = << Attempt("d1", "sse", "d1"), Attempt("d2", "push", "t1") >>

\* the delivery calls an event is due: for each of its devices, in the
\* order of the directory, Enqueue with the push token when the device has
\* a non-empty one and Send with the device id otherwise
Due(w) ==
    LET all == Targets(w)
    IN  [i \in 1..Len(all) |->
            IF all[i].PushToken # NilPushToken /\ all[i].PushToken # ""
            THEN Attempt(all[i].ID, "push", all[i].PushToken)
            ELSE Attempt(all[i].ID, "sse", all[i].ID)]

\* C16: for an event taken off the queue, each device the directory gives
\* for it gets exactly one delivery call, through the push dispatcher when
\* it has a non-empty push token and through the SSE hub otherwise; the
\* devices are the named device alone when the event names one and all
\* the devices of the user otherwise
C16_OneAttemptPerDevice ==
    /\ [](cons.pc \in {"loop", "push", "sse"} =>
            LET due == Due(cons.wrapper)
                k == Len(due) - Len(cons.devices) + (IF cons.pc = "loop" THEN 0 ELSE 1)
            IN  attempts = SubSeq(due, 1, k))
    /\ [][(cons.pc \in {"loop", "push", "sse"} /\ cons'.pc = "idle") =>
            attempts' = Due(cons.wrapper)]_vars
    /\ [][(cons.pc = "select" /\ cons'.pc = "loop") =>
            [i \in 1..Len(cons'.devices) |-> cons'.devices[i].ID]
                = [i \in 1..Len(Due(cons.wrapper)) |-> Due(cons.wrapper)[i].ID]]_vars

\* the event for every device of u1 is through: Send for d1, Enqueue for
\* d2, Send for d3 whose push token is the empty string; before it the
\* event naming d3 had its one call
C16_Witness ==
    /\ cons.pc = "idle"
    /\ started = << routerEventWrapper("u1", "d3", NewWebhooksUpdatedEvent),
                    routerEventWrapper("u1", NilDeviceID, NewMessageEnqueuedEvent) >>
    /\ attempts = << Attempt("d1", "sse", "d1"), Attempt("d2", "push", "t1"),
                     Attempt("d3", "sse", "d3") >>
    /\ "t1" \in DOMAIN pending

\* the event the observer follows has been taken off the queue and its
\* processing, every delivery call included, is over
WatchedDispatched ==
    \/ watch.st = "done"
    \/ watch.st = "taken" /\ cons.pc = "idle"

\* C17: the consumer waits for nothing but its queue: every event that
\* Notify put on the queue is in the end taken off it and dispatched to the
\* last of its devices, whatever the stream clients and the debounce task
\* do: with full stream buffers, with serving loops that take nothing
\* from their buffers, with a flush whose transport call does not return
C17_AcceptedEventuallyDispatched ==
    (watch.st = "queued") ~> WatchedDispatched

\* the followed event is in processing: its Send for device d1 found the
\* buffer of every stream full and returned, while a flush waits on the
\* transport
C17_Witness ==
    /\ watch.st = "taken"
    /\ cons.pc = "loop"
    /\ Len(cons.devices) = 2
    /\ sndRet = ErrNoActiveConnection
    /\ \A c \in 1..LiveStreams :
          conn[c].pc = "serving" /\ Len(conn[c].channel) = ChanCap
    /\ flush.pc = "send"

(***************************************************************************)
(* Properties of the online tracker                                        *)
(***************************************************************************)
\* the devices written since the latest Drain
Fresh(latest) == {d \in Devices : latest[d] # 0}

\* C39: a last-seen text that SetOnline writes while a flush is under way
\* is neither lost by the Drain nor handed over twice. What was written
\* for a device since the latest Drain is in the cache, as the text
\* written latest; a Drain takes exactly those entries and leaves the
\* cache empty; SetLastSeen is passed, for each device drained, the instant
\* of the text written latest before the Drain; and no call's text is
\* passed to SetLastSeen more than once.
C39_StampsHandedOnce ==
    /\ [](/\ DOMAIN online = Fresh(onlineLog.latest)
          /\ \A d \in DOMAIN online :
                online[d].value =
                    lastSeen(onlineLog.text[onlineLog.latest[d]], onlineLog.latest[d]))
    /\ [][(persist.pc = "idle" /\ persist'.pc = "drained") =>
            /\ persist'.items =
                   [d \in Fresh(onlineLog.latest) |->
                       lastSeen(onlineLog.text[onlineLog.latest[d]],
                                onlineLog.latest[d])]
            /\ online' = EmptyMap]_vars
    /\ [][(persist.pc = "drained" /\ persist'.pc = "idle") =>
            onlineLog'.passed =
                [d \in Fresh(onlineLog.atDrain) |->
                    onlineLog.text[onlineLog.atDrain[d]][2] * TicksPerSecond]]_vars
    /\ [](\A i \in Stamps : onlineLog.handed[i] <= 1)

\* a text written between a Drain and its SetLastSeen has been passed on by
\* the flush after, and the text the earlier flush took for the device by
\* that one
C39_Witness ==
    /\ persist.pc = "idle"
    /\ \E i \in onlineLog.during, j \in Stamps :
          /\ j < i
          /\ onlineLog.handed[i] = 1 /\ onlineLog.handed[j] = 1
          /\ onlineLog.atDrain["d1"] = i

====
